---- MODULE Spec2Model ----
(***************************************************************************)
(* A model of api/app.js of ALICE_5.0 (src/app.js): the lunar signal       *)
(* normaliser, the archetype classifier, the report formatter and the      *)
(* /api/lunar, /api/celestial, /api/cron/post and /api/cron/reply          *)
(* handlers.  The file holds three variants of the server (lines 1-824,    *)
(* 981-1564 and 1566-2257); a definition follows the first unless it says  *)
(* otherwise.                                                              *)
(*                                                                         *)
(* JavaScript values are records tagged by type: Undefined, Null, NaN,     *)
(* Num(n), Str(s), Text(s), Obj.  Numbers are fixed point integers: an RSI *)
(* and an angle are held in tenths (23.6 is 236, 22.5 degrees is 225), a   *)
(* volume in whole dollars.  Strings that the code searches (symbols, numeric     *)
(* text) are Str of a sequence of one-character strings; strings the code  *)
(* only compares or looks up (phase names, messages) are Text of a string. *)
(* Characters outside ASCII are written by name ("--" for the em dash,     *)
(* "U+27E1" for a glyph).                                                  *)
(***************************************************************************)
EXTENDS Integers, Sequences, FiniteSets, TLC

VARIABLES env, pc, call, lunar, post, tweets, resonanceLog,
          reply, memoryFile, replies, celestial, runs

vars == <<env, pc, call, lunar, post, tweets, resonanceLog,
          reply, memoryFile, replies, celestial, runs>>

-----------------------------------------------------------------------------
(* Bounds of the model.                                                    *)

MaxRsiTenths == 1000
MaxAngleTenths == 7200
MaxNegAngleTenths == 3600
MaxResponseLen == 3
MaxMentions == 4
MaxReplyRuns == 2
MaxKpThousandths == 7000
MaxPriceUnits == 12000
MaxInvocations == 2

-----------------------------------------------------------------------------
(* JavaScript values and the coercions the code relies on.                 *)

Undefined == [t |-> "undefined"]
Null == [t |-> "null"]
NaN == [t |-> "nan"]
Obj == [t |-> "object"]
Num(n) == [t |-> "num", v |-> n]
Str(s) == [t |-> "str", s |-> s]
Text(s) == [t |-> "text", s |-> s]

Digits == <<"0", "1", "2", "3", "4", "5", "6", "7", "8", "9">>

IsDigit(c) == \E i \in 1..Len(Digits) : Digits[i] = c

DigitVal(c) == (CHOOSE i \in 1..Len(Digits) : Digits[i] = c) - 1

\* The length of the longest prefix of s made of digits.
RECURSIVE DigitPrefixLen(_)
DigitPrefixLen(s) ==
  IF s = <<>> \/ ~IsDigit(Head(s)) THEN 0 ELSE 1 + DigitPrefixLen(Tail(s))

\* The value of a sequence of digits.
RECURSIVE DigitsValue(_)
DigitsValue(s) ==
  IF s = <<>> THEN 0
  ELSE DigitsValue(SubSeq(s, 1, Len(s) - 1)) * 10 + DigitVal(s[Len(s)])

\* ToNumber(x) as used by the relational operators, in units of 1/scale:
\* null is 0, undefined and a non-numeric string are NaN, the empty string is 0.
ToNumber(x, scale) ==
  CASE x.t = "num" -> x
    [] x.t = "null" -> Num(0)
    [] x.t = "str" ->
         IF DigitPrefixLen(x.s) = Len(x.s)
         THEN Num(DigitsValue(x.s) * scale)
         ELSE NaN
    [] x.t = "text" -> IF x.s = "" THEN Num(0) ELSE NaN
    [] OTHER -> NaN

\* x < c and x >= c for a numeric constant c: false whenever x converts to NaN.
Lt(x, c, scale) ==
  LET n == ToNumber(x, scale) IN n.t = "num" /\ n.v < c

Ge(x, c, scale) ==
  LET n == ToNumber(x, scale) IN n.t = "num" /\ n.v >= c

Gt(x, c, scale) ==
  LET n == ToNumber(x, scale) IN n.t = "num" /\ n.v > c

\* parseFloat(x): a number is itself, a string gives its leading digits, anything
\* else (null, undefined, an object, a string with no leading digit) gives NaN.
parseFloat(x) ==
  CASE x.t = "num" -> x
    [] x.t = "str" ->
         LET k == DigitPrefixLen(x.s)
         IN IF k = 0 THEN NaN ELSE Num(DigitsValue(SubSeq(x.s, 1, k)))
    [] OTHER -> NaN

\* Truthiness: undefined, null, NaN, 0 and the empty string are falsy.
Truthy(x) ==
  CASE x.t \in {"undefined", "null", "nan"} -> FALSE
    [] x.t = "num" -> x.v # 0
    [] x.t = "str" -> x.s # <<>>
    [] x.t = "text" -> x.s # ""
    [] OTHER -> TRUE

\* a || b
OrElse(a, b) == IF Truthy(a) THEN a ELSE b

\* a ?? b
Coalesce(a, b) == IF a.t \in {"undefined", "null"} THEN b ELSE a

\* A default parameter value applies to undefined only.
Default(a, d) == IF a.t = "undefined" THEN d ELSE a

\* String.prototype.includes on sequences of characters.
Includes(s, sub) ==
  \E i \in 0..(Len(s) - Len(sub)) : SubSeq(s, i + 1, i + Len(sub)) = sub

-----------------------------------------------------------------------------
(* getLunarMessage and getLunarPatternTierFromAngle (lines 36-59).         *)

Phases ==
  <<"New Moon", "Waxing Crescent", "First Quarter", "Waxing Gibbous",
    "Full Moon", "Waning Gibbous", "Last Quarter", "Waning Crescent">>

PhaseMessages ==
  <<"New pattern forming -- wait, don't act.",
    "Conviction forming. Early risk finds momentum.",
    "Signal friction. Cut noise.",
    "Belief climbing -- echo gaining mass.",
    "Full sentiment -- prepare for reversal.",
    "Decompression -- profit + shadow emerge.",
    "Ritual endings. Retest mind.",
    "Fading signal -- prepare to receive anew.">>

DefaultLunarMessage == "Lunar unknown -- silence reverberates."

\* Property names every object literal inherits from Object.prototype: a lookup
\* map[key] with such a key yields the inherited member, which is truthy.
InheritedKeys == {"constructor", "toString", "valueOf", "hasOwnProperty"}

PhaseIndex(name) == CHOOSE i \in 1..Len(Phases) : Phases[i] = name

IsCanonicalPhase(p) == p.t = "text" /\ \E i \in 1..Len(Phases) : Phases[i] = p.s

\* map[phase] for an object literal whose own values are given by the table:
\* the own value, an inherited member, or undefined.  A key that is not a string
\* is converted to one first; none of those strings is a key of the table.
Lookup(table, phase) ==
  IF IsCanonicalPhase(phase) THEN table[PhaseIndex(phase.s)]
  ELSE IF phase.t = "text" /\ phase.s \in InheritedKeys THEN Obj
  ELSE Undefined

getLunarMessage(phase) ==
  OrElse(Lookup([i \in 1..Len(Phases) |-> Text(PhaseMessages[i])], phase),
         Text(DefaultLunarMessage))

Tier(t, g, s) == [tier |-> t, glyph |-> g, signal |-> s]

\* getLunarPatternTierFromAngle with the first comparison written <= 22.5.
TierFirstBoundaryInclusive(angle) ==
  IF Lt(angle, 226, 10) THEN Tier("Veil", "U+27E1", "Nothing reveals -- pause, dream.")
  ELSE IF Lt(angle, 675, 10) THEN Tier("Whisper", "~", "Pre-signal buildup.")
  ELSE IF Lt(angle, 1125, 10) THEN Tier("Charge", "U+21CC", "Conviction forming.")
  ELSE IF Lt(angle, 1575, 10) THEN Tier("Charge", "U+21CC", "Momentum accelerating.")
  ELSE IF Lt(angle, 2025, 10)
    THEN Tier("Overglow", "U+2604", "Full sentiment -- likely reversal.")
  ELSE IF Lt(angle, 2475, 10) THEN Tier("Echofield", "U+27DF", "Echo still resonates.")
  ELSE IF Lt(angle, 2925, 10) THEN Tier("Whisper", "~", "Decline forming quietly.")
  ELSE Tier("Veil", "U+27E1", "Signal fading -- prepare anew.")

getLunarPatternTierFromAngle(angle) ==
  IF Lt(angle, 225, 10) THEN Tier("Veil", "U+27E1", "Nothing reveals -- pause, dream.")
  ELSE IF Lt(angle, 675, 10) THEN Tier("Whisper", "~", "Pre-signal buildup.")
  ELSE IF Lt(angle, 1125, 10) THEN Tier("Charge", "U+21CC", "Conviction forming.")
  ELSE IF Lt(angle, 1575, 10) THEN Tier("Charge", "U+21CC", "Momentum accelerating.")
  ELSE IF Lt(angle, 2025, 10)
    THEN Tier("Overglow", "U+2604", "Full sentiment -- likely reversal.")
  ELSE IF Lt(angle, 2475, 10) THEN Tier("Echofield", "U+27DF", "Echo still resonates.")
  ELSE IF Lt(angle, 2925, 10) THEN Tier("Whisper", "~", "Decline forming quietly.")
  ELSE Tier("Veil", "U+27E1", "Signal fading -- prepare anew.")

-----------------------------------------------------------------------------
(* getLunarSignal (lines 61-95).  The signal's time field, the wall clock  *)
(* at the return, is left out.                                             *)

angleMap == [i \in 1..Len(Phases) |-> Num((i - 1) * 450)]

fallback ==
  [phase |-> Text("Waning Crescent"), illumination |-> Text("45"),
   message |-> getLunarMessage(Text("Waning Crescent")),
   pattern |-> getLunarPatternTierFromAngle(Num(3150)),
   source |-> "fallback"]

\* j?.astronomy?.astro?.<field> for a response body j: null, an object without
\* astronomy data (such as the API's error body), or an object with it.
AstroField(j, field) ==
  IF j.t = "null" THEN Undefined
  ELSE IF ~j.hasAstro THEN Undefined
  ELSE j.astro[field]

\* Lines 70-71: without a key the function returns the fallback at once;
\* otherwise it issues the request of line 74 and waits for it.
\* getLunarSignalStart without the test of line 71.
LunarStartAlwaysFetches(key) == [fetch |-> TRUE]

getLunarSignalStart(key) ==
  IF ~Truthy(key) THEN [fetch |-> FALSE, ret |-> fallback] ELSE [fetch |-> TRUE]

\* getLunarSignalSettled with the pattern of the fallback on every path.
LunarSettledFallbackPattern(outcome) ==
  IF outcome.kind # "json" THEN fallback
  ELSE
    LET phase == OrElse(AstroField(outcome.j, "moon_phase"), fallback.phase)
        ill == OrElse(AstroField(outcome.j, "moon_illumination"), Text("0"))
    IN [phase |-> phase, illumination |-> ill,
        message |-> getLunarMessage(phase),
        pattern |-> fallback.pattern,
        source |-> "weatherapi"]

\* Lines 74-94: the request settles.  A rejected fetch and a body that is not
\* JSON both throw inside the try block, and the catch block returns fallback.
getLunarSignalSettled(outcome) ==
  IF outcome.kind # "json" THEN fallback
  ELSE
    LET phase == OrElse(AstroField(outcome.j, "moon_phase"), fallback.phase)
        ill == OrElse(AstroField(outcome.j, "moon_illumination"), Text("0"))
        angle == Coalesce(Lookup(angleMap, phase), Num(0))
    IN [phase |-> phase, illumination |-> ill,
        message |-> getLunarMessage(phase),
        pattern |-> getLunarPatternTierFromAngle(angle),
        source |-> "weatherapi"]

\* What the weather API can answer.
PhaseInputs ==
  {Text(Phases[i]) : i \in 1..Len(Phases)}
    \cup {Text("Blood Moon"), Text(""), Text("constructor"), Undefined, Null, Num(5)}

IlluminationInputs == {Undefined, Text("45"), Num(0), Num(97)}

WeatherBodies ==
  {Null, [t |-> "object", hasAstro |-> FALSE]}
    \cup {[t |-> "object", hasAstro |-> TRUE,
           astro |-> [moon_phase |-> p, moon_illumination |-> i]] :
            p \in PhaseInputs, i \in IlluminationInputs}

WeatherOutcomes ==
  {[kind |-> "reject"], [kind |-> "notjson"]}
    \cup {[kind |-> "json", j |-> j] : j \in WeatherBodies}

-----------------------------------------------------------------------------
(* identifyArchetype (lines 215-225).  draw is the value of Math.random()  *)
(* in tenths; it is read on the BONK branch only.                          *)

Archetypes ==
  {"shadow", "trickster", "observer", "echo", "seer", "guardian", "prophet", "cultist"}

SOL == <<"S", "O", "L">>
BONK == <<"B", "O", "N", "K">>

VolumeThreshold == 10000000

RandomTenths == 0..9

\* identifyArchetype with the volume test written >= instead of >.
ArchetypeVolumeInclusive(arg, draw) ==
  LET symbol == Default(arg.symbol, Str(<<>>))
      rsi == Default(arg.rsi, Num(500))
      volume == Default(arg.volume, Num(0))
      v == OrElse(parseFloat(volume), Num(0))
  IN IF Lt(rsi, 236, 10) THEN "shadow"
     ELSE IF Lt(rsi, 382, 10)
       THEN (IF Ge(v, VolumeThreshold, 1) THEN "trickster" ELSE "observer")
     ELSE IF Lt(rsi, 500, 10) THEN "echo"
     ELSE IF Lt(rsi, 618, 10) THEN "seer"
     ELSE IF Lt(rsi, 786, 10) THEN "guardian"
     ELSE IF Ge(rsi, 786, 10) /\ Includes(symbol.s, SOL) THEN "prophet"
     ELSE IF Includes(symbol.s, BONK)
       THEN (IF draw > 3 THEN "cultist" ELSE "trickster")
     ELSE "seer"

\* identifyArchetype without its last line, the default return: the function then
\* returns undefined when no branch is taken.
ArchetypeNoDefault(arg, draw) ==
  LET symbol == Default(arg.symbol, Str(<<>>))
      rsi == Default(arg.rsi, Num(500))
      volume == Default(arg.volume, Num(0))
      v == OrElse(parseFloat(volume), Num(0))
  IN IF Lt(rsi, 236, 10) THEN "shadow"
     ELSE IF Lt(rsi, 382, 10)
       THEN (IF Gt(v, VolumeThreshold, 1) THEN "trickster" ELSE "observer")
     ELSE IF Lt(rsi, 500, 10) THEN "echo"
     ELSE IF Lt(rsi, 618, 10) THEN "seer"
     ELSE IF Lt(rsi, 786, 10) THEN "guardian"
     ELSE IF Ge(rsi, 786, 10) /\ Includes(symbol.s, SOL) THEN "prophet"
     ELSE IF Includes(symbol.s, BONK)
       THEN (IF draw > 3 THEN "cultist" ELSE "trickster")
     ELSE "undefined"

identifyArchetype(arg, draw) ==
  LET symbol == Default(arg.symbol, Str(<<>>))
      rsi == Default(arg.rsi, Num(500))
      volume == Default(arg.volume, Num(0))
      v == OrElse(parseFloat(volume), Num(0))
  IN IF Lt(rsi, 236, 10) THEN "shadow"
     ELSE IF Lt(rsi, 382, 10)
       THEN (IF Gt(v, VolumeThreshold, 1) THEN "trickster" ELSE "observer")
     ELSE IF Lt(rsi, 500, 10) THEN "echo"
     ELSE IF Lt(rsi, 618, 10) THEN "seer"
     ELSE IF Lt(rsi, 786, 10) THEN "guardian"
     ELSE IF Ge(rsi, 786, 10) /\ Includes(symbol.s, SOL) THEN "prophet"
     ELSE IF Includes(symbol.s, BONK)
       THEN (IF draw > 3 THEN "cultist" ELSE "trickster")
     ELSE "seer"

-----------------------------------------------------------------------------
(* getTrendingTokens and getTokenDataById (lines 164-213).                 *)

LowerLetters ==
  <<"a", "b", "c", "d", "e", "f", "g", "h", "i", "j", "k", "l", "m",
    "n", "o", "p", "q", "r", "s", "t", "u", "v", "w", "x", "y", "z">>

UpperLetters ==
  <<"A", "B", "C", "D", "E", "F", "G", "H", "I", "J", "K", "L", "M",
    "N", "O", "P", "Q", "R", "S", "T", "U", "V", "W", "X", "Y", "Z">>

UpperChar(c) ==
  IF \E i \in 1..Len(LowerLetters) : LowerLetters[i] = c
  THEN UpperLetters[CHOOSE i \in 1..Len(LowerLetters) : LowerLetters[i] = c]
  ELSE c

toUpperCase(s) == [i \in 1..Len(s) |-> UpperChar(s[i])]

\* Number(x)
Number(x) == ToNumber(x, 1)

\* Math.round of a value held in tenths.
RoundTenths(x) == Num(((x.v + 5) \div 10) * 10)

\* The first `limit` coins of the trending answer as {id, symbol: '$' + SYMBOL};
\* a rejected request and an answer without a coins list give [].
getTrendingTokens(limit, outcome) ==
  IF outcome.kind # "ok" THEN <<>>
  ELSE [i \in 1..(IF Len(outcome.coins) < limit THEN Len(outcome.coins) ELSE limit) |->
          [id |-> outcome.coins[i].id,
           symbol |-> Str(<<"$">> \o toUpperCase(outcome.coins[i].symbol))]]

\* Lines 189-194: the RSI of the closing prices, or null.  outcome.last is the
\* last value RSI.calculate gives for them.
\* TokenRsi with the test of line 190 passing from 14 closing prices on.
TokenRsiFrom14(outcome) ==
  IF outcome.nCloses >= 14 /\ outcome.last.t = "num" THEN RoundTenths(outcome.last)
  ELSE Null

TokenRsi(outcome) ==
  IF outcome.nCloses >= 15 /\ outcome.last.t = "num" THEN RoundTenths(outcome.last)
  ELSE Null

\* Null when either request fails or the coin's body has no symbol (toUpperCase
\* of undefined throws inside the try block), the snapshot otherwise.
getTokenDataById(id, outcome) ==
  IF outcome.kind # "ok" THEN Null
  ELSE IF outcome.symbol.t # "str" THEN Null
  ELSE [t |-> "object",
        price |-> Number(outcome.market.price),
        volumeUSD |-> Number(outcome.market.vol),
        marketCap |-> Number(outcome.market.marketCap),
        fdv |-> Number(outcome.market.fdv),
        circulatingSupply |-> Number(outcome.market.circulatingSupply),
        totalSupply |-> Number(outcome.market.totalSupply),
        holders |-> Number(OrElse(outcome.market.followers, Num(0))),
        change24h |-> Number(outcome.market.change24h),
        rsi |-> TokenRsi(outcome),
        symbol |-> Str(toUpperCase(outcome.symbol.s)),
        id |-> id]

\* What CoinGecko can answer.
TrendingOutcomes ==
  {[kind |-> "reject"], [kind |-> "malformed"],
   [kind |-> "ok", coins |-> <<>>],
   [kind |-> "ok", coins |-> <<[id |-> "bonk", symbol |-> <<"b", "o", "n", "k">>],
                                [id |-> "solana", symbol |-> <<"s", "o", "l">>]>>]}

MarketFull ==
  [price |-> Num(5000), vol |-> Num(15000000), marketCap |-> Num(100000000),
   fdv |-> Num(120000000), circulatingSupply |-> Num(1000000), totalSupply |-> Null,
   followers |-> Num(2500), change24h |-> Num(0 - 312)]

\* A coin whose body has a market cap and no total volume.
MarketNoVolume ==
  [price |-> Num(5000), vol |-> Undefined, marketCap |-> Num(100000000),
   fdv |-> Undefined, circulatingSupply |-> Num(1000000), totalSupply |-> Null,
   followers |-> Undefined, change24h |-> Num(250)]

MarketMissing ==
  [price |-> Undefined, vol |-> Undefined, marketCap |-> Undefined,
   fdv |-> Undefined, circulatingSupply |-> Undefined, totalSupply |-> Undefined,
   followers |-> Undefined, change24h |-> Undefined]

TokenOutcomes ==
  {[kind |-> "reject"], [kind |-> "histreject"]}
    \cup {[kind |-> "ok", market |-> m, symbol |-> sym, nCloses |-> n, last |-> l] :
            m \in {MarketFull, MarketNoVolume, MarketMissing},
            sym \in {Str(<<"s", "o", "l">>), Undefined},
            n \in {14, 15},
            l \in {NaN, Num(304), Num(795)}}

-----------------------------------------------------------------------------
(* Number formatting (lines 306-326).  A decimal string is Fixed(k, d, u): *)
(* the digits of the integer k with a point before the last d of them and  *)
(* the suffix u.  Rounding is to the nearest, halves away from zero.       *)
(* A price is held in 1/10000 dollar, money in dollars, a percentage in    *)
(* hundredths of a percent; a value of x.v counted in units of 1/units is  *)
(* passed as (x, units).                                                   *)

Thrown == [t |-> "throw"]

Fixed(k, d, u) == [t |-> "fixed", k |-> k, d |-> d, suffix |-> u]

RECURSIVE Pow10(_)
Pow10(n) == IF n = 0 THEN 1 ELSE 10 * Pow10(n - 1)

Abs(n) == IF n < 0 THEN 0 - n ELSE n

RoundDiv(a, b) ==
  LET q == Abs(a) \div b
      r == Abs(a) % b
      n == IF 2 * r >= b THEN q + 1 ELSE q
  IN IF a < 0 THEN 0 - n ELSE n

\* Number.prototype.toFixed(d) of the number x.v / units.
toFixed(x, units, d, u) ==
  IF x.t = "nan" THEN Text("NaN")
  ELSE IF Pow10(d) >= units THEN Fixed(x.v * (Pow10(d) \div units), d, u)
  ELSE Fixed(RoundDiv(x.v, units \div Pow10(d)), d, u)

\* The test !num && num !== 0 that guards each formatter.
IsMissing(x) == ~Truthy(x) /\ x # Num(0)

\* x * k, for the numeric conversion of x.
Times(x, k) ==
  LET n == ToNumber(x, 1) IN IF n.t = "nan" THEN NaN ELSE Num(n.v * k)

\* A value that is neither missing nor a number has no toFixed method.
formatNumber(num, units) ==
  IF IsMissing(num) THEN Text("--")
  ELSE IF num.t # "num" THEN Thrown
  ELSE IF num.v \div units >= 1000000000 THEN toFixed(num, units * 1000000000, 2, "B")
  ELSE IF num.v \div units >= 1000000 THEN toFixed(num, units * 1000000, 2, "M")
  ELSE IF num.v \div units >= 1000 THEN toFixed(num, units * 1000, 2, "K")
  ELSE toFixed(num, units, 2, "")

\* formatNumber of the third build (lines 1849-1855): '0' for a falsy or NaN
\* argument, a dollar sign before every number.
formatNumberThird(num, units) ==
  LET Dollar(x) == [t |-> "dollar", amount |-> x]
  IN IF ~Truthy(num) \/ ToNumber(num, 1).t = "nan" THEN Text("0")
     ELSE IF num.t # "num" THEN Thrown
     ELSE IF num.v \div units >= 1000000000
       THEN Dollar(toFixed(num, units * 1000000000, 2, "B"))
     ELSE IF num.v \div units >= 1000000
       THEN Dollar(toFixed(num, units * 1000000, 2, "M"))
     ELSE IF num.v \div units >= 1000 THEN Dollar(toFixed(num, units * 1000, 2, "K"))
     ELSE Dollar(toFixed(num, units, 2, ""))

\* The three definitions of formatNumber: lines 307-313, lines 1286-1292 (the
\* same text) and lines 1849-1855.
FormatNumberOf(variant, num) ==
  IF variant = "third" THEN formatNumberThird(num, 1) ELSE formatNumber(num, 1)

\* formatPrice with its first test written price <= 0.01.
FormatPriceFirstBoundaryInclusive(price, units) ==
  IF IsMissing(price) THEN Text("--")
  ELSE IF price.t # "num" THEN Thrown
  ELSE IF price.v * 100 <= units THEN toFixed(price, units, 8, "")
  ELSE IF price.v < units THEN toFixed(price, units, 4, "")
  ELSE toFixed(price, units, 2, "")

formatPrice(price, units) ==
  IF IsMissing(price) THEN Text("--")
  ELSE IF price.t # "num" THEN Thrown
  ELSE IF price.v * 100 < units THEN toFixed(price, units, 8, "")
  ELSE IF price.v < units THEN toFixed(price, units, 4, "")
  ELSE toFixed(price, units, 2, "")

formatPercent(num) ==
  IF IsMissing(num) THEN Text("--")
  ELSE IF num.t # "num" THEN Thrown
  ELSE [sign |-> IF num.v > 0 THEN "+" ELSE "", number |-> toFixed(num, 100, 2, "%")]

-----------------------------------------------------------------------------
(* Text of the language model's answer: a sequence of characters.           *)

Q == "\""
Space == " "

RECURSIVE TrimLeft(_)
TrimLeft(s) == IF s # <<>> /\ Head(s) = Space THEN TrimLeft(Tail(s)) ELSE s

RECURSIVE TrimRight(_)
TrimRight(s) ==
  IF s # <<>> /\ s[Len(s)] = Space THEN TrimRight(SubSeq(s, 1, Len(s) - 1)) ELSE s

trim(s) == TrimLeft(TrimRight(s))

\* The matches of /"([^"]+)"/ in s as pairs <<i, j>> of the positions of the two
\* quotes; String.prototype.match takes the leftmost.
QuoteSpans(s) ==
  {span \in (1..Len(s)) \X (1..Len(s)) :
     /\ span[2] > span[1] + 1
     /\ s[span[1]] = Q /\ s[span[2]] = Q
     /\ \A k \in (span[1] + 1)..(span[2] - 1) : s[k] # Q}

HasQuote(s) == QuoteSpans(s) # {}

\* FirstQuoteSpan taking the rightmost match.
LastQuoteSpan(s) ==
  CHOOSE span \in QuoteSpans(s) : \A other \in QuoteSpans(s) : span[1] >= other[1]

FirstQuoteSpan(s) ==
  CHOOSE span \in QuoteSpans(s) : \A other \in QuoteSpans(s) : span[1] <= other[1]

-----------------------------------------------------------------------------
(* generateOracleInsight (lines 328-418).                                  *)

DefaultQuote ==
  "Mid-caps awaken as rotation intensifies; the spiral pulls tight around a new pivot."

\* A property of tokenData || {}.
Field(tokenData, name) ==
  IF tokenData.t \in {"null", "undefined"} THEN Undefined ELSE tokenData[name]

\* lunar?.phase and lunar?.pattern?.tier
LunarPhaseOf(l) == IF l.t \in {"null", "undefined"} THEN Undefined ELSE l.phase
LunarTierOf(l) == IF l.t \in {"null", "undefined"} THEN Undefined ELSE Text(l.pattern.tier)

\* What openai.chat.completions.create can do: reject, or resolve with no
\* choices, with a null content, or with a text.
LlmFails(llm) == llm.kind \in {"reject", "nochoices", "nullcontent"}

\* The four values of Math.random() (tenths) of lines 350-355.
Draws(a, b, c, d) == [deltaKey |-> a, phaseDrift |-> b, omega |-> c, delta |-> d]

\* Lines 329-340: the fields of tokenData || {}, with their defaults.
TokenFields(tokenData) ==
  [symbol |-> Default(Field(tokenData, "symbol"), Str(<<"X", "X", "X">>)),
   rsi |-> Default(Field(tokenData, "rsi"), Num(500)),
   volumeUSD |-> Default(Field(tokenData, "volumeUSD"), Num(0)),
   price |-> Default(Field(tokenData, "price"), Num(0)),
   marketCap |-> Default(Field(tokenData, "marketCap"), Num(0)),
   fdv |-> Default(Field(tokenData, "fdv"), Num(0)),
   circulatingSupply |-> Default(Field(tokenData, "circulatingSupply"), Num(0)),
   totalSupply |-> Default(Field(tokenData, "totalSupply"), Num(0)),
   holders |-> Default(Field(tokenData, "holders"), Num(0)),
   change24h |-> Default(Field(tokenData, "change24h"), Num(0))]

\* volume / cap * 100 rounded to tenths, by long division (cap > 0, volume >= 0).
PercentTenths(volume, cap) ==
  LET q0 == volume \div cap
      r0 == volume % cap
      d1 == (r0 * 10) \div cap
      r1 == (r0 * 10) % cap
      d2 == (r1 * 10) \div cap
      r2 == (r1 * 10) % cap
      d3 == (r2 * 10) \div cap
      r3 == (r2 * 10) % cap
  IN q0 * 1000 + d1 * 100 + d2 * 10 + d3 + (IF 2 * r3 >= cap THEN 1 ELSE 0)

\* threshold.replace('.', ''): the digits of a decimal string.
DropPoint(x) == IF x.t = "fixed" THEN [x EXCEPT !.t = "digits"] ELSE x

\* DerivedMetrics with the phase drift's draw added into the threshold.
DerivedMetricsDriftingThreshold(f, rnd) ==
  LET threshold == toFixed(Times(f.price, 105 + rnd.phaseDrift), 1000000, 2, "")
      echoRim == toFixed(Times(f.price, 115), 1000000, 2, "")
  IN [volMcapRatio |->
        IF Gt(f.marketCap, 0, 1)
        THEN (IF ToNumber(f.volumeUSD, 1).t = "nan" THEN Text("NaN")
              ELSE Fixed(PercentTenths(ToNumber(f.volumeUSD, 1).v,
                                       ToNumber(f.marketCap, 1).v), 1, ""))
        ELSE Text("0.0"),
      cycleIndex |-> toFixed(Times(f.rsi, 1618), 1000000, 2, ""),
      threshold |-> threshold,
      echoRim |-> echoRim,
      deltaKey |-> toFixed(Num(rnd.deltaKey * 20 + 50), 100, 2, ""),
      phaseDrift |-> toFixed(Num((rnd.phaseDrift - 5) * 50), 10000, 4, ""),
      alignmentString |->
        [symbol |-> f.symbol,
         omega |-> (rnd.omega * 999) \div 10,
         delta |-> (rnd.delta * 99) \div 10,
         thNum |-> DropPoint(threshold),
         echoNum |-> DropPoint(echoRim)]]

\* Lines 346-358: the derived metrics and the alignment string.
DerivedMetrics(f, rnd) ==
  LET threshold == toFixed(Times(f.price, 105), 1000000, 2, "")
      echoRim == toFixed(Times(f.price, 115), 1000000, 2, "")
  IN [volMcapRatio |->
        IF Gt(f.marketCap, 0, 1)
        THEN (IF ToNumber(f.volumeUSD, 1).t = "nan" THEN Text("NaN")
              ELSE Fixed(PercentTenths(ToNumber(f.volumeUSD, 1).v,
                                       ToNumber(f.marketCap, 1).v), 1, ""))
        ELSE Text("0.0"),
      cycleIndex |-> toFixed(Times(f.rsi, 1618), 1000000, 2, ""),
      threshold |-> threshold,
      echoRim |-> echoRim,
      deltaKey |-> toFixed(Num(rnd.deltaKey * 20 + 50), 100, 2, ""),
      phaseDrift |-> toFixed(Num((rnd.phaseDrift - 5) * 50), 10000, 4, ""),
      alignmentString |->
        [symbol |-> f.symbol,
         omega |-> (rnd.omega * 999) \div 10,
         delta |-> (rnd.delta * 99) \div 10,
         thNum |-> DropPoint(threshold),
         echoNum |-> DropPoint(echoRim)]]

\* Line 369: the narrative filled from the numbers.
TemplatePulse(f, m) ==
  [kind |-> "template", symbol |-> f.symbol,
   price |-> formatPrice(f.price, 10000),
   gain |-> toFixed(IF ToNumber(f.change24h, 1).t = "nan" THEN NaN
                    ELSE Num(Abs(ToNumber(f.change24h, 1).v)), 100, 0, ""),
   threshold |-> m.threshold, echoRim |-> m.echoRim,
   weakness |-> toFixed(Times(f.price, 96), 1000000, 2, ""),
   retrace |-> toFixed(Times(f.price, 90), 1000000, 0, "")]

\* Narrative whose call of the language model is not inside a try block.
NarrativeUnguarded(llm, template) ==
  IF LlmFails(llm) THEN Thrown
  ELSE
    LET response == trim(llm.content)
        span == FirstQuoteSpan(response)
    IN IF HasQuote(response)
       THEN [quote |-> Str(SubSeq(response, span[1], span[2])),
             pulse |-> [kind |-> "response",
                        text |-> trim(SubSeq(response, 1, span[1] - 1)
                                        \o SubSeq(response, span[2] + 1, Len(response)))]]
       ELSE [quote |-> Text(DefaultQuote),
             pulse |-> [kind |-> "response", text |-> response]]

\* Lines 368-391: the quote and the narrative.  Every failure of the call (a
\* rejection, res.choices[0] undefined, content null) is thrown inside the try
\* block, whose catch block only logs: the defaults of lines 368-369 stay.
Narrative(llm, template) ==
  IF LlmFails(llm) THEN [quote |-> Text(DefaultQuote), pulse |-> template]
  ELSE
    LET response == trim(llm.content)
        span == FirstQuoteSpan(response)
    IN IF HasQuote(response)
       THEN [quote |-> Str(SubSeq(response, span[1], span[2])),
             pulse |-> [kind |-> "response",
                        text |-> trim(SubSeq(response, 1, span[1] - 1)
                                        \o SubSeq(response, span[2] + 1, Len(response)))]]
       ELSE [quote |-> Text(DefaultQuote),
             pulse |-> [kind |-> "response", text |-> response]]

\* Lines 342-343 and 360-366: what the prompt sent to the language model is
\* filled with.
InsightPrompt(lunarSignal, tokenData, archetype) ==
  [symbol |-> TokenFields(tokenData).symbol,
   rsi |-> TokenFields(tokenData).rsi,
   moon |-> OrElse(LunarPhaseOf(lunarSignal), Text("Unknown")),
   tier |-> OrElse(LunarTierOf(lunarSignal), Text("Veil")),
   archetype |-> archetype]

\* The report, or Thrown when a step of the function throws.
generateOracleInsight(lunarSignal, tokenData, archetype, llm, rnd) ==
  LET f == TokenFields(tokenData)
      m == DerivedMetrics(f, rnd)
      template == TemplatePulse(f, m)
      n == Narrative(llm, template)
      body ==
        [price |-> formatPrice(f.price, 10000),
         change |-> formatPercent(f.change24h),
         volume |-> formatNumber(f.volumeUSD, 1),
         marketCap |-> formatNumber(f.marketCap, 1),
         fdv |-> formatNumber(f.fdv, 1),
         circulatingSupply |-> formatNumber(f.circulatingSupply, 1),
         symbol |-> f.symbol,
         holders |-> formatNumber(ToNumber(f.holders, 1), 1000),
         totalSupply |-> formatNumber(ToNumber(f.totalSupply, 1), 1000000)]
  IN IF n = Thrown
          \/ Thrown \in {template.price, body.price, body.change, body.volume,
                         body.marketCap, body.fdv, body.circulatingSupply}
     THEN Thrown
     ELSE [t |-> "report", quote |-> n.quote, body |-> body, metrics |-> m,
           pulse |-> n.pulse]

-----------------------------------------------------------------------------
(* getKpState (lines 116-121).  A Kp index is held in thousandths.         *)

KpStates == {"U+26AA Quiet", "U+1F7E1 Unsettled", "U+1F7E0 Active", "U+1F534 Storm Watch"}

\* getKpState with its first test written index <= 2.
KpStateFirstBoundaryInclusive(index) ==
  IF Lt(index, 2001, 1000) THEN "U+26AA Quiet"
  ELSE IF Lt(index, 4000, 1000) THEN "U+1F7E1 Unsettled"
  ELSE IF Lt(index, 6000, 1000) THEN "U+1F7E0 Active"
  ELSE "U+1F534 Storm Watch"

getKpState(index) ==
  IF Lt(index, 2000, 1000) THEN "U+26AA Quiet"
  ELSE IF Lt(index, 4000, 1000) THEN "U+1F7E1 Unsettled"
  ELSE IF Lt(index, 6000, 1000) THEN "U+1F7E0 Active"
  ELSE "U+1F534 Storm Watch"

-----------------------------------------------------------------------------
(* Inputs of the function-level specification.                             *)

Symbols ==
  {Undefined, Str(<<>>), Str(<<"B", "T", "C">>), Str(<<"$", "S", "O", "L">>),
   Str(<<"B", "O", "N", "K", "C", "O", "I", "N">>),
   Str(<<"S", "O", "L", "B", "O", "N", "K">>)}

RsiInputs ==
  {Num(n) : n \in 0..MaxRsiTenths}
    \cup {Undefined, Null, NaN, Str(<<"a", "b", "c">>), Str(<<"3", "0">>)}

VolumeInputs ==
  {Num(0), Num(5000000), Num(VolumeThreshold), Num(VolumeThreshold + 1), Num(15000000),
   Undefined, Null, NaN, Str(<<"a", "b", "c">>),
   Str(<<"2", "0", "0", "0", "0", "0", "0", "0">>)}

AngleInputs ==
  {Num(a) : a \in (0 - MaxNegAngleTenths)..MaxAngleTenths} \cup {Obj, NaN}

\* The texts the language model can answer: every sequence of at most
\* MaxResponseLen characters out of a letter, a space and the double quote.
RECURSIVE TextsOfLen(_)
TextsOfLen(n) ==
  IF n = 0 THEN {<<>>}
  ELSE {Append(t, c) : t \in TextsOfLen(n - 1), c \in {"a", Space, Q}}

\* and three longer ones: a quoted span followed by text, one inside text, and
\* two quoted spans.
Responses ==
  UNION {TextsOfLen(n) : n \in 0..MaxResponseLen}
    \cup {<<Q, "a", Q, Space, "a">>, <<"a", Space, Q, "a", Q, Space, "a">>,
          <<Q, "a", Q, Q, "b", Q>>}

LlmOutcomes ==
  {[kind |-> "reject"], [kind |-> "nochoices"], [kind |-> "nullcontent"]}
    \cup {[kind |-> "text", content |-> r] : r \in Responses}

\* The values Math.random() takes for the report's four draws.
DrawSamples == {0, 9}

DrawInputs ==
  {Draws(a, b, c, d) : a \in DrawSamples, b \in DrawSamples,
                       c \in DrawSamples, d \in DrawSamples}

\* The answers and the draws the handlers' models use.
PostLlmOutcomes ==
  {[kind |-> "reject"], [kind |-> "nochoices"], [kind |-> "nullcontent"],
   [kind |-> "text", content |-> <<"a">>],
   [kind |-> "text", content |-> <<Q, "a", Q>>]}

PostDraws == {Draws(0, 0, 0, 0), Draws(9, 9, 9, 9)}

\* The snapshots getTokenDataById can return.
TokenValues == {getTokenDataById("solana", o) : o \in TokenOutcomes}

\* The signals getLunarSignal can return, and no signal at all.
LunarValues ==
  {Null, fallback,
   getLunarSignalSettled([kind |-> "json",
                          j |-> [t |-> "object", hasAstro |-> TRUE,
                                 astro |-> [moon_phase |-> Text("Full Moon"),
                                            moon_illumination |-> Num(97)]]])}

KpInputs == {Num(k) : k \in 0..MaxKpThousandths} \cup {NaN}

\* Prices in 1/10000 dollar: every one up to MaxPriceUnits, a negative one, 5
\* dollars and 1234.5678 dollars, and no price at all.
PriceInputs ==
  {Num(p) : p \in 0..MaxPriceUnits}
    \cup {Num(0 - 50), Num(50000), Num(12345678), Undefined, Null, NaN}

\* Amounts in dollars around each scale's boundary, and no amount at all.
NumberInputs ==
  {Num(n) : n \in {0, 5, 999, 1000, 2500, 999999, 1000000, 2500000,
                   999999999, 1000000000, 1500000000}}
    \cup {Num(0 - 5), Undefined, Null, NaN}

NoCall == [fn |-> "none"]

\* The invocations of a handler that may be in progress at once, none started.
Invocations == 1..MaxInvocations

NoRuns == [p \in Invocations |-> [pc |-> "idle"]]

\* A function is called from the idle state and its result is held in call until
\* the caller drops it.
CallIdentifyArchetype ==
  /\ pc = "idle"
  /\ \E s \in Symbols, r \in RsiInputs, v \in VolumeInputs, draw \in RandomTenths :
       call' = [fn |-> "identifyArchetype",
                arg |-> [symbol |-> s, rsi |-> r, volume |-> v],
                ret |-> identifyArchetype([symbol |-> s, rsi |-> r, volume |-> v], draw)]
  /\ pc' = "called"
  /\ UNCHANGED <<env, lunar, post, tweets, resonanceLog, reply, memoryFile, replies, celestial, runs>>

CallGetLunarPatternTierFromAngle ==
  /\ pc = "idle"
  /\ \E a \in AngleInputs :
       call' = [fn |-> "getLunarPatternTierFromAngle", arg |-> a,
                ret |-> getLunarPatternTierFromAngle(a)]
  /\ pc' = "called"
  /\ UNCHANGED <<env, lunar, post, tweets, resonanceLog, reply, memoryFile, replies, celestial, runs>>

CallGenerateOracleInsight ==
  /\ pc = "idle"
  /\ \E l \in LunarValues, td \in TokenValues, a \in {"seer", "cultist"},
        llm \in LlmOutcomes, rnd \in DrawInputs :
       call' = [fn |-> "generateOracleInsight",
                arg |-> [lunar |-> l, tokenData |-> td, archetype |-> a,
                         llm |-> llm, rnd |-> rnd],
                ret |-> generateOracleInsight(l, td, a, llm, rnd)]
  /\ pc' = "called"
  /\ UNCHANGED <<env, lunar, post, tweets, resonanceLog, reply, memoryFile, replies, celestial, runs>>

\* The report built twice from the same arguments, the language model answering
\* the same both times and Math.random() drawing anew.
CallGenerateOracleInsightTwice ==
  /\ pc = "idle"
  /\ \E l \in LunarValues, td \in TokenValues, llm \in PostLlmOutcomes,
        rnd \in PostDraws, rndAgain \in PostDraws :
       call' = [fn |-> "generateOracleInsight twice",
                arg |-> [lunar |-> l, tokenData |-> td, archetype |-> "seer",
                         llm |-> llm, rnd |-> rnd, rndAgain |-> rndAgain],
                ret |-> generateOracleInsight(l, td, "seer", llm, rnd),
                again |-> generateOracleInsight(l, td, "seer", llm, rndAgain)]
  /\ pc' = "called"
  /\ UNCHANGED <<env, lunar, post, tweets, resonanceLog, reply, memoryFile, replies, celestial, runs>>

CallFormatPrice ==
  /\ pc = "idle"
  /\ \E price \in PriceInputs :
       call' = [fn |-> "formatPrice", arg |-> price, ret |-> formatPrice(price, 10000)]
  /\ pc' = "called"
  /\ UNCHANGED <<env, lunar, post, tweets, resonanceLog, reply, memoryFile, replies, celestial, runs>>

CallFormatNumber ==
  /\ pc = "idle"
  /\ \E num \in NumberInputs, variant \in {"first", "second", "third"} :
       call' = [fn |-> "formatNumber", variant |-> variant, arg |-> num,
                ret |-> FormatNumberOf(variant, num)]
  /\ pc' = "called"
  /\ UNCHANGED <<env, lunar, post, tweets, resonanceLog, reply, memoryFile, replies, celestial, runs>>

CallGetLunarMessage ==
  /\ pc = "idle"
  /\ \E phase \in PhaseInputs :
       call' = [fn |-> "getLunarMessage", arg |-> phase, ret |-> getLunarMessage(phase)]
  /\ pc' = "called"
  /\ UNCHANGED <<env, lunar, post, tweets, resonanceLog, reply, memoryFile, replies, celestial, runs>>

CallGetKpState ==
  /\ pc = "idle"
  /\ \E index \in KpInputs :
       call' = [fn |-> "getKpState", arg |-> index, ret |-> getKpState(index)]
  /\ pc' = "called"
  /\ UNCHANGED <<env, lunar, post, tweets, resonanceLog, reply, memoryFile, replies, celestial, runs>>

Return ==
  /\ pc = "called"
  /\ pc' = "idle"
  /\ call' = NoCall
  /\ UNCHANGED <<env, lunar, post, tweets, resonanceLog, reply, memoryFile, replies, celestial, runs>>

InitFn ==
  /\ env = [weatherKey |-> Undefined, cronSecret |-> Undefined, hasXCreds |-> FALSE,
            build |-> 1]
  /\ pc = "idle"
  /\ call = NoCall
  /\ lunar = [pc |-> "idle"]
  /\ post = [pc |-> "idle"]
  /\ tweets = <<>>
  /\ resonanceLog = <<>>
  /\ reply = [pc |-> "idle", run |-> 0]
  /\ memoryFile = <<>>
  /\ replies = <<>>
  /\ celestial = [pc |-> "idle"]
  /\ runs = NoRuns

NextFn ==
  \/ CallIdentifyArchetype
  \/ CallGetLunarPatternTierFromAngle
  \/ CallGenerateOracleInsight
  \/ CallGenerateOracleInsightTwice
  \/ CallFormatPrice
  \/ CallFormatNumber
  \/ CallGetLunarMessage
  \/ CallGetKpState
  \/ Return

SpecFn == InitFn /\ [][NextFn]_vars

-----------------------------------------------------------------------------
(* The server.  A behaviour of Spec follows one request from its arrival   *)
(* to its response.  env is process.env as read at start-up; hasXCreds     *)
(* says that the four X credentials are set, so that rw is a client        *)
(* (lines 420-437); build says which of the server's builds is deployed:   *)
(* the first (lines 1-824) or the third (lines 1566-2257).  The handlers   *)
(* of Spec are those of the first.                                         *)

WeatherKeys == {Undefined, Text("wk")}

\* What the handler of /api/cron/post is given by the services it awaits.
PostWeatherOutcomes ==
  {[kind |-> "reject"],
   [kind |-> "json", j |-> [t |-> "object", hasAstro |-> TRUE,
                            astro |-> [moon_phase |-> Text("Full Moon"),
                                       moon_illumination |-> Num(97)]]]}

CronSecrets == {Undefined, Text("s3cret")}

RequestKeys == {Undefined, Text("s3cret"), Text("guess")}

Envs ==
  {[weatherKey |-> k, cronSecret |-> c, hasXCreds |-> x, build |-> 1] :
     k \in WeatherKeys, c \in CronSecrets, x \in BOOLEAN}

\* Lines 441 and 444: the answers that end a request before any work.
Forbidden(key) == ~Truthy(env.cronSecret) \/ key # env.cronSecret

\* GET /api/lunar (lines 97-114) up to the first await: getLunarSignal runs to
\* its return (no key) or to its fetch.  getLunarSignal catches whatever its body
\* throws, so the handler's own catch block (lines 102-113) is never entered.
LunarRequest ==
  /\ pc = "idle"
  /\ pc' = "lunar"
  /\ LET start == getLunarSignalStart(env.weatherKey)
     IN lunar' = IF start.fetch
                 THEN [pc |-> "fetching", fetches |-> 1]
                 ELSE [pc |-> "responded", fetches |-> 0, path |-> "nokey",
                       ret |-> start.ret,
                       resp |-> [status |-> 200, body |-> start.ret]]
  /\ UNCHANGED <<env, call, post, tweets, resonanceLog, reply, memoryFile, replies, celestial, runs>>

\* The fetch of line 74 settles; getLunarSignal returns and the handler answers.
LunarFetchSettles ==
  /\ pc = "lunar"
  /\ lunar.pc = "fetching"
  /\ \E outcome \in WeatherOutcomes :
       LET ret == getLunarSignalSettled(outcome)
       IN lunar' = [pc |-> "responded", fetches |-> lunar.fetches,
                    path |-> IF outcome.kind = "json" THEN "json" ELSE "exception",
                    ret |-> ret,
                    resp |-> [status |-> 200, body |-> ret]]
  /\ UNCHANGED <<env, pc, call, post, tweets, resonanceLog, reply, memoryFile, replies, celestial, runs>>

-----------------------------------------------------------------------------
(* GET /api/cron/post (lines 439-527), one action for each await.  post    *)
(* holds the handler's position and its live locals; the catch block of    *)
(* lines 524-526 answers {ok: false} to whatever the try block throws.     *)

PostDone(resp, text) == [pc |-> "done", resp |-> resp, oracleText |-> text]

Caught(text) == PostDone([status |-> 200, ok |-> FALSE], text)

DefaultPick == [id |-> "evaa-protocol", symbol |-> Str(<<"$", "E", "V", "A", "A">>)]

\* The characters of the report's template (lines 394-415) outside its
\* placeholders: every report is longer.
ReportFixedChars == 297

\* oracleText.slice(0, n): the first n characters of a report longer than n,
\* the report itself otherwise.
Slice(text, n) == IF ReportFixedChars > n THEN [slice |-> n, of |-> text] ELSE text

\* Lines 440-447: the guards, then the call of getTrendingTokens.
PostRequest ==
  /\ pc = "idle"
  /\ pc' = "post"
  /\ \E key \in RequestKeys :
       post' = IF Forbidden(key)
                 THEN [pc |-> "refused", resp |-> [status |-> 403, ok |-> FALSE]]
               ELSE IF ~env.hasXCreds
                 THEN [pc |-> "refused", resp |-> [status |-> 200, ok |-> TRUE]]
               ELSE [pc |-> "trending"]
  /\ UNCHANGED <<env, call, lunar, tweets, resonanceLog, reply, memoryFile, replies, celestial, runs>>

\* Lines 447-449: the pick, then the call of getTokenDataById.
PostTrending ==
  /\ pc = "post"
  /\ post.pc = "trending"
  /\ \E outcome \in TrendingOutcomes :
       LET trending == getTrendingTokens(1, outcome)
       IN post' = [pc |-> "token",
                   pick |-> IF trending = <<>> THEN DefaultPick ELSE trending[1]]
  /\ UNCHANGED <<env, pc, call, lunar, tweets, resonanceLog, reply, memoryFile, replies, celestial, runs>>

\* Lines 449-450: the snapshot, then the call of getLunarSignal.  closes is the
\* number of closing prices the price history gave (line 187).
PostToken ==
  /\ pc = "post"
  /\ post.pc = "token"
  /\ \E outcome \in TokenOutcomes :
       post' = [pc |-> "lunar", pick |-> post.pick,
                closes |-> IF outcome.kind = "ok" THEN outcome.nCloses ELSE 0,
                tokenData |-> getTokenDataById(post.pick.id, outcome)]
  /\ UNCHANGED <<env, pc, call, lunar, tweets, resonanceLog, reply, memoryFile, replies, celestial, runs>>

\* The mood of line 459; tokenData.rsi throws when tokenData is null.
MoodThrows(tokenData) == tokenData.t = "null"

Mood(tokenData) ==
  IF Ge(tokenData.rsi, 780, 10) THEN "intense overload"
  ELSE IF Ge(tokenData.rsi, 610, 10) THEN "charged momentum"
  ELSE "focused echo"

\* Lines 450-469: the lunar signal, the archetype, the mood, then the call of
\* generatePosterImage.
PostLunar ==
  /\ pc = "post"
  /\ post.pc = "lunar"
  /\ \E outcome \in PostWeatherOutcomes, draw \in RandomTenths :
       LET start == getLunarSignalStart(env.weatherKey)
           signal == IF start.fetch THEN getLunarSignalSettled(outcome) ELSE start.ret
           archetype ==
             identifyArchetype(
               [symbol |-> post.pick.symbol,
                rsi |-> Coalesce(Field(post.tokenData, "rsi"), Num(500)),
                volume |-> Field(post.tokenData, "volumeUSD")], draw)
       IN post' = IF MoodThrows(post.tokenData) THEN Caught(Null)
                  ELSE [pc |-> "poster", pick |-> post.pick, closes |-> post.closes,
                        tokenData |-> post.tokenData, signal |-> signal,
                        archetype |-> archetype,
                        mood |-> Mood(post.tokenData)]
  /\ UNCHANGED <<env, pc, call, lunar, tweets, resonanceLog, reply, memoryFile, replies, celestial, runs>>

\* Lines 469-470: the image's address or null, then generateOracleInsight up to
\* its call of the language model.
PostPoster ==
  /\ pc = "post"
  /\ post.pc = "poster"
  /\ \E imageUrl \in {Null, Text("https://img")}, rnd \in PostDraws :
       post' = [pc |-> "insight", pick |-> post.pick, tokenData |-> post.tokenData,
                signal |-> post.signal, archetype |-> post.archetype,
                imageUrl |-> imageUrl, rnd |-> rnd]
  /\ UNCHANGED <<env, pc, call, lunar, tweets, resonanceLog, reply, memoryFile, replies, celestial, runs>>

\* Lines 470-477 and 503: the report, then the download of the image or the
\* tweet without one.
PostInsight ==
  /\ pc = "post"
  /\ post.pc = "insight"
  /\ \E llm \in PostLlmOutcomes :
       LET oracleText ==
             generateOracleInsight(post.signal, post.tokenData, post.archetype,
                                   llm, post.rnd)
           live == [pick |-> post.pick, tokenData |-> post.tokenData,
                    archetype |-> post.archetype, oracleText |-> oracleText]
       IN post' = IF oracleText = Thrown THEN Caught(Null)
                  ELSE IF Truthy(post.imageUrl)
                    THEN [pc |-> "buffer", live |-> live, imageUrl |-> post.imageUrl]
                  ELSE [pc |-> "tweet", live |-> live, media |-> FALSE, sigil |-> Null]
  /\ UNCHANGED <<env, pc, call, lunar, tweets, resonanceLog, reply, memoryFile, replies, celestial, runs>>

\* Lines 476-478: the image's bytes or null, then the upload or the tweet
\* without an image.
PostBuffer ==
  /\ pc = "post"
  /\ post.pc = "buffer"
  /\ \E downloaded \in BOOLEAN :
       post' = IF downloaded
               THEN [pc |-> "upload", live |-> post.live, imageUrl |-> post.imageUrl]
               ELSE [pc |-> "tweet", live |-> post.live, media |-> FALSE, sigil |-> Null]
  /\ UNCHANGED <<env, pc, call, lunar, tweets, resonanceLog, reply, memoryFile, replies, celestial, runs>>

\* Lines 478-479: the upload settles.
PostUpload ==
  /\ pc = "post"
  /\ post.pc = "upload"
  /\ \E uploaded \in BOOLEAN :
       post' = IF uploaded
               THEN [pc |-> "tweet", live |-> post.live, media |-> TRUE,
                     sigil |-> post.imageUrl]
               ELSE Caught(post.live.oracleText)
  /\ UNCHANGED <<env, pc, call, lunar, tweets, resonanceLog, reply, memoryFile, replies, celestial, runs>>

\* Lines 479-483 and 503-507: the tweet settles; then loadResonanceLog.
PostTweet ==
  /\ pc = "post"
  /\ post.pc = "tweet"
  /\ \E accepted \in BOOLEAN :
       IF accepted
       THEN /\ tweets' = Append(tweets, [text |-> Slice(post.live.oracleText, 279),
                                         media |-> post.media])
            /\ post' = [pc |-> "load", live |-> post.live, media |-> post.media,
                        sigil |-> post.sigil, tweetId |-> Len(tweets) + 1]
       ELSE /\ tweets' = tweets
            /\ post' = Caught(post.live.oracleText)
  /\ UNCHANGED <<env, pc, call, lunar, resonanceLog, reply, memoryFile, replies, celestial, runs>>

\* LogRecord carrying the id of an earlier tweet, not of the one just published.
LogRecordStaleId(live, tweetId, sigil) ==
  [id |-> tweetId - 1, archetype |-> live.archetype, token |-> live.pick.symbol,
   content |-> Slice(live.oracleText, 279),
   rsi |-> Field(live.tokenData, "rsi"), price |-> Field(live.tokenData, "price"),
   volume |-> formatNumber(Field(live.tokenData, "volumeUSD"), 1),
   sigil |-> sigil, likes |-> 0, retweets |-> 0]

\* The record of lines 484-496 and 508-520.
LogRecord(live, tweetId, sigil) ==
  [id |-> tweetId, archetype |-> live.archetype, token |-> live.pick.symbol,
   content |-> Slice(live.oracleText, 279),
   rsi |-> Field(live.tokenData, "rsi"), price |-> Field(live.tokenData, "price"),
   volume |-> formatNumber(Field(live.tokenData, "volumeUSD"), 1),
   sigil |-> sigil, likes |-> 0, retweets |-> 0]

\* loadResonanceLog (lines 725-732): the file's records, [] when it cannot be
\* read; then lines 484-497 (508-521): the new record first.
PostLoadLog ==
  /\ pc = "post"
  /\ post.pc = "load"
  /\ \E readable \in BOOLEAN :
       post' = [pc |-> "save", live |-> post.live, media |-> post.media,
                tweetId |-> post.tweetId,
                log |-> <<LogRecord(post.live, post.tweetId, post.sigil)>>
                          \o (IF readable THEN resonanceLog ELSE <<>>)]
  /\ UNCHANGED <<env, pc, call, lunar, tweets, resonanceLog, reply, memoryFile, replies, celestial, runs>>

\* saveResonanceLog (lines 734-740) writes the file or logs its failure; then
\* the answer of line 499 (523).
PostSaveLog ==
  /\ pc = "post"
  /\ post.pc = "save"
  /\ \E written \in BOOLEAN :
       resonanceLog' = IF written THEN post.log ELSE resonanceLog
  /\ post' = PostDone([status |-> 200, ok |-> TRUE, image |-> post.media,
                       tweetId |-> post.tweetId], post.live.oracleText)
  /\ UNCHANGED <<env, pc, call, lunar, tweets, reply, memoryFile, replies, celestial, runs>>

-----------------------------------------------------------------------------
(* GET /api/celestial (lines 123-162).  rt and av record what became of    *)
(* each feed: "failed" when its try block threw, "read" otherwise.         *)

\* parseFloat of a feed's value, in thousandths.
ParseKp(raw) ==
  LET n == parseFloat(raw)
  IN IF n.t = "num" /\ raw.t = "str" THEN Num(n.v * 1000) ELSE n

\* +v.toFixed(2)
RoundHundredths(v) == IF v.t = "num" THEN Num(RoundDiv(v.v, 10) * 10) ELSE NaN

\* Lines 126-127: the readings the response carries when a feed fails.
DefaultRealtimeKp == [index |-> Num(0), state |-> "Unknown", time |-> "now"]
DefaultAveragedKp == [index |-> Num(0), time |-> "now"]

KpSamples == {0, 1996, 2000, 3330, 5990, 6000}

\* What a feed can answer: a rejection or a body that is not JSON, a list
\* without rows, or a last row with its value and time.
KpFeedOutcomes ==
  {[kind |-> "reject"], [kind |-> "empty"]}
    \cup {[kind |-> "row", kp |-> x] :
            x \in {Num(k) : k \in KpSamples} \cup {Str(<<"3">>), Str(<<"a">>), Null}}

\* Lines 129-134.
RealtimeKp(outcome) ==
  IF outcome.kind # "row" THEN DefaultRealtimeKp
  ELSE [index |-> RoundHundredths(ParseKp(outcome.kp)),
        state |-> getKpState(ParseKp(outcome.kp)), time |-> "feed"]

\* Lines 136-141.
AveragedKp(outcome) ==
  IF outcome.kind # "row" THEN DefaultAveragedKp
  ELSE [index |-> RoundHundredths(ParseKp(outcome.kp)), time |-> "feed"]

FeedResult(outcome) == IF outcome.kind = "row" THEN "read" ELSE "failed"

\* Line 125 up to the fetch of getLunarSignal, or to the first feed's fetch.
CelestialRequest ==
  /\ pc = "idle"
  /\ pc' = "celestial"
  /\ LET start == getLunarSignalStart(env.weatherKey)
     IN celestial' = IF start.fetch THEN [pc |-> "lunar"]
                     ELSE [pc |-> "realtime", signal |-> start.ret]
  /\ UNCHANGED <<env, call, lunar, post, tweets, resonanceLog, reply, memoryFile, replies, runs>>

CelestialLunar ==
  /\ pc = "celestial"
  /\ celestial.pc = "lunar"
  /\ \E outcome \in PostWeatherOutcomes :
       celestial' = [pc |-> "realtime", signal |-> getLunarSignalSettled(outcome)]
  /\ UNCHANGED <<env, pc, call, lunar, post, tweets, resonanceLog, reply, memoryFile, replies, runs>>

\* Lines 129-134: the realtime feed settles.
CelestialRealtime ==
  /\ pc = "celestial"
  /\ celestial.pc = "realtime"
  /\ \E outcome \in KpFeedOutcomes :
       celestial' = [pc |-> "averaged", signal |-> celestial.signal,
                     rt |-> FeedResult(outcome), realtimeKp |-> RealtimeKp(outcome)]
  /\ UNCHANGED <<env, pc, call, lunar, post, tweets, resonanceLog, reply, memoryFile, replies, runs>>

\* Lines 136-153: the averaged feed settles and the handler answers.
CelestialAveraged ==
  /\ pc = "celestial"
  /\ celestial.pc = "averaged"
  /\ \E outcome \in KpFeedOutcomes :
       celestial' =
         [pc |-> "responded", rt |-> celestial.rt, av |-> FeedResult(outcome),
          resp |-> [status |-> 200,
                    kp |-> [realtime |-> celestial.realtimeKp,
                            averaged |-> AveragedKp(outcome)],
                    alignment |-> [event |-> celestial.signal.phase,
                                   effect |-> celestial.signal.message,
                                   pattern |-> celestial.signal.pattern,
                                   illumination |-> celestial.signal.illumination]]]
  /\ UNCHANGED <<env, pc, call, lunar, post, tweets, resonanceLog, reply, memoryFile, replies, runs>>

OldRecord ==
  [id |-> 0, archetype |-> "seer", token |-> Str(<<"$", "B", "T", "C">>),
   content |-> Text("old"), rsi |-> Num(550), price |-> Num(5000),
   volume |-> Text("--"), sigil |-> Null, likes |-> 0, retweets |-> 0]

Init ==
  /\ env \in Envs
  /\ pc = "idle"
  /\ call = NoCall
  /\ lunar = [pc |-> "idle"]
  /\ post = [pc |-> "idle"]
  /\ tweets = <<>>
  /\ resonanceLog \in {<<>>, <<OldRecord>>}
  /\ reply = [pc |-> "idle", run |-> 0]
  /\ memoryFile = <<>>
  /\ replies = <<>>
  /\ celestial = [pc |-> "idle"]
  /\ runs = NoRuns

Next ==
  \/ LunarRequest
  \/ LunarFetchSettles
  \/ PostRequest
  \/ PostTrending
  \/ PostToken
  \/ PostLunar
  \/ PostPoster
  \/ PostInsight
  \/ PostBuffer
  \/ PostUpload
  \/ PostTweet
  \/ PostLoadLog
  \/ PostSaveLog
  \/ CelestialRequest
  \/ CelestialLunar
  \/ CelestialRealtime
  \/ CelestialAveraged

Spec == Init /\ [][Next]_vars

-----------------------------------------------------------------------------
(* GET /api/cron/reply: lines 529-651 in the first build, lines 1963-2081  *)
(* in the third.  A behaviour of SpecReply is a sequence of runs of the    *)
(* handler, one after another.  memoryFile is the list memory.json holds   *)
(* (no file yet reads as a failure), replies the ids of the mentions X has *)
(* accepted a reply to, in order.                                          *)

MentionIds == 1..MaxMentions

\* The mention the account itself wrote.  The query of the first build leaves
\* the account's tweets out (line 540), the third build filters them (line 1996).
OwnMention == 1

Mention(i) == [id |-> i, own |-> i = OwnMention]

\* The mentions of a set, the most recent (highest id) first.
RECURSIVE Recent(_)
Recent(ids) ==
  IF ids = {} THEN <<>>
  ELSE LET m == CHOOSE i \in ids : \A j \in ids : j <= i
       IN <<Mention(m)>> \o Recent(ids \ {m})

\* What the search gives: the mentions written so far (fewer than the 10 it
\* lists at most), without the account's own in the first build.
SearchResults ==
  {Recent(IF env.build = 3 THEN 1..n ELSE (1..n) \ {OwnMention}) : n \in 0..MaxMentions}

ReplyBuilds == {1, 3}

ReplyEnvs ==
  {[weatherKey |-> Undefined, cronSecret |-> c, hasXCreds |-> x, build |-> b] :
     c \in CronSecrets, x \in BOOLEAN, b \in ReplyBuilds}

UserAgents == {"vercel-cron/1.0", "curl"}

\* Lines 531 (first build) and 1965-1968 (third build).
ReplyForbidden(key, agent) ==
  IF env.build = 3
  THEN agent # "vercel-cron/1.0" /\ ~(Truthy(env.cronSecret) /\ key = env.cronSecret)
  ELSE Forbidden(key)

\* seq.filter(keep)
RECURSIVE Filter(_, _)
Filter(seq, keep) ==
  IF seq = <<>> THEN <<>>
  ELSE (IF Head(seq) \in keep THEN <<Head(seq)>> ELSE <<>>) \o Filter(Tail(seq), keep)

\* memory.includes(id)
Remembered(memory, id) == \E k \in 1..Len(memory) : memory[k] = id

\* Lines 564 and 1995-1997: the mentions not yet replied to.
NewTweets(found, memory) ==
  Filter(found, {t \in {found[k] : k \in 1..Len(found)} :
                   /\ ~Remembered(memory, t.id)
                   /\ (env.build = 3 => ~t.own)})

\* array.slice(0, n)
FirstN(seq, n) == SubSeq(seq, 1, IF Len(seq) < n THEN Len(seq) ELSE n)

\* array.slice(-n)
LastN(seq, n) == SubSeq(seq, IF Len(seq) > n THEN Len(seq) - n + 1 ELSE 1, Len(seq))

\* Lines 571 and 2006: the mentions a run replies to.
ToReply(newTweets) == FirstN(newTweets, IF env.build = 3 THEN 3 ELSE 2)

\* The errors rw.v2.reply rejects with: the HTTP status, and whether the message
\* holds the text 429.
ReplyErrors ==
  {[code |-> 429, has429 |-> FALSE], [code |-> 500, has429 |-> TRUE],
   [code |-> 403, has429 |-> FALSE]}

\* The test of line 629 reading the status alone.
IsRateLimitByCode(err) == err.code = 429

\* Lines 629 and 2059.
IsRateLimit(err) == err.code = 429 \/ err.has429

ReplyTokenOutcomes ==
  {[kind |-> "reject"],
   [kind |-> "ok", market |-> MarketFull, symbol |-> Str(<<"s", "o", "l">>),
    nCloses |-> 15, last |-> Num(795)]}

DefaultReplyCoin == [id |-> "bitcoin", symbol |-> Str(<<"$", "B", "T", "C">>)]

\* What the search for the coin a mention names can give (lines 579-590), and
\* what the trending list gives when it gives none (lines 592-595).
ReplyCoinOutcomes ==
  {[named |-> TRUE, coin |-> [id |-> "solana", symbol |-> Str(<<"$", "S", "O", "L">>)]],
   [named |-> FALSE, trend |-> [kind |-> "reject"]]}

ReplyLlmOutcomes == {[kind |-> "reject"]}

ReplyIdle(run, resp) == [pc |-> "idle", run |-> run, resp |-> resp]

\* The run's first step after the two guards.
ReplyFirstStep == IF env.build = 3 THEN "load" ELSE "search"

\* Lines 530-536 (1964-1975): the guards.
ReplyRequest ==
  /\ pc = "idle"
  /\ reply.pc = "idle"
  /\ reply.run < MaxReplyRuns
  /\ \E key \in RequestKeys, agent \in UserAgents :
       IF ReplyForbidden(key, agent)
       THEN /\ reply' = ReplyIdle(reply.run + 1, [status |-> 403, ok |-> FALSE, sent |-> 0])
            /\ pc' = "idle"
       ELSE IF ~env.hasXCreds
       THEN /\ reply' = ReplyIdle(reply.run + 1, [status |-> 200, ok |-> TRUE, sent |-> 0])
            /\ pc' = "idle"
       ELSE /\ reply' = [pc |-> ReplyFirstStep, run |-> reply.run, base |-> Len(replies),
                         memory |-> <<>>, found |-> <<>>]
            /\ pc' = "reply"
  /\ UNCHANGED <<env, call, lunar, post, tweets, resonanceLog, memoryFile, replies, celestial, runs>>

\* Lines 564-573 (1995-2004): the new mentions, the answer when there is none,
\* the loop otherwise.
ReplyPlan(found, memory) ==
  LET newTweets == NewTweets(found, memory)
  IN IF newTweets = <<>>
     THEN ReplyIdle(reply.run + 1, [status |-> 200, ok |-> TRUE, sent |-> 0])
     ELSE [pc |-> "loop", run |-> reply.run, base |-> reply.base, memory |-> memory,
           toReply |-> ToReply(newTweets), i |-> 1, sent |-> 0, iterations |-> <<>>]

\* Lines 537-551 (1984-1993): rw.v2.me() and the search; either may reject, and
\* the catch block of lines 647-650 answers {ok: false}.
ReplySearch ==
  /\ pc = "reply"
  /\ reply.pc = "search"
  /\ \E rejected \in BOOLEAN, found \in SearchResults :
       reply' =
         IF rejected
           THEN ReplyIdle(reply.run + 1, [status |-> 200, ok |-> FALSE, sent |-> 0])
         ELSE IF found = <<>>
           THEN ReplyIdle(reply.run + 1, [status |-> 200, ok |-> TRUE, sent |-> 0])
         ELSE IF env.build = 3 THEN ReplyPlan(found, reply.memory)
         ELSE [reply EXCEPT !.pc = "load", !.found = found]
  /\ pc' = IF reply'.pc = "idle" THEN "idle" ELSE "reply"
  /\ UNCHANGED <<env, call, lunar, post, tweets, resonanceLog, memoryFile, replies, celestial, runs>>

\* Lines 553-561 (1976-1982): memory.json, or [] when it cannot be read.
ReplyLoadMemory ==
  /\ pc = "reply"
  /\ reply.pc = "load"
  /\ \E readable \in BOOLEAN :
       LET memory == IF readable THEN memoryFile ELSE <<>>
       IN reply' = IF env.build = 3 THEN [reply EXCEPT !.pc = "search", !.memory = memory]
                   ELSE ReplyPlan(reply.found, memory)
  /\ pc' = IF reply'.pc = "idle" THEN "idle" ELSE "reply"
  /\ UNCHANGED <<env, call, lunar, post, tweets, resonanceLog, memoryFile, replies, celestial, runs>>

\* The loop's next position: the next mention, or the save after the last.
ReplyAdvance(r) ==
  IF r.i >= Len(r.toReply) THEN [r EXCEPT !.pc = "save", !.i = r.i + 1]
  ELSE [r EXCEPT !.i = r.i + 1]

\* Lines 575-634 (2006-2064): one turn of the loop.  The coin is the one the
\* mention names or the trending one; without a snapshot the turn ends at the
\* continue of line 600; the report is built and handed to rw.v2.reply, whose
\* rejection is caught at line 624.
ReplyIteration ==
  /\ pc = "reply"
  /\ reply.pc = "loop"
  /\ \E search \in ReplyCoinOutcomes, token \in ReplyTokenOutcomes,
        llm \in ReplyLlmOutcomes, result \in {[ok |-> TRUE]} \cup
                                             {[ok |-> FALSE, err |-> e] : e \in ReplyErrors} :
       LET t == reply.toReply[reply.i]
           trending == IF search.named THEN <<>> ELSE getTrendingTokens(1, search.trend)
           coin == IF search.named THEN search.coin
                   ELSE IF trending = <<>> THEN DefaultReplyCoin ELSE trending[1]
           tokenData == getTokenDataById(coin.id, token)
           signal == getLunarSignalStart(env.weatherKey).ret
           archetype ==
             identifyArchetype([symbol |-> coin.symbol,
                                rsi |-> Coalesce(Field(tokenData, "rsi"), Num(500)),
                                volume |-> Field(tokenData, "volumeUSD")], 0)
           insight == generateOracleInsight(signal, tokenData, archetype, llm,
                                            Draws(0, 0, 0, 0))
       IN IF tokenData = Null
          THEN /\ reply' = ReplyAdvance([reply EXCEPT !.iterations =
                                           Append(@, [kind |-> "nodata"])])
               /\ replies' = replies
          ELSE IF insight # Thrown /\ result.ok
          THEN /\ replies' = Append(replies, t.id)
               /\ reply' = ReplyAdvance([reply EXCEPT
                                           !.memory = Append(@, t.id),
                                           !.sent = @ + 1,
                                           !.iterations = Append(@, [kind |-> "sent"])])
          ELSE /\ replies' = replies
               /\ LET err == IF insight = Thrown THEN [code |-> 0, has429 |-> FALSE]
                             ELSE result.err
                      failed == [reply EXCEPT !.iterations =
                                   Append(@, [kind |-> "failed", err |-> err])]
                  IN reply' = IF IsRateLimit(err) THEN [failed EXCEPT !.pc = "save"]
                              ELSE ReplyAdvance(failed)
  /\ UNCHANGED <<env, pc, call, lunar, post, tweets, resonanceLog, memoryFile, celestial, runs>>

\* Lines 636-645 (2066-2075): the last 100 ids are written and the run answers;
\* a failed write is caught at line 647 and the run answers {ok: false}.
ReplySave ==
  /\ pc = "reply"
  /\ reply.pc = "save"
  /\ \E written \in BOOLEAN :
       /\ memoryFile' = IF written THEN LastN(reply.memory, 100) ELSE memoryFile
       /\ reply' = ReplyIdle(reply.run + 1,
                             [status |-> 200, ok |-> written, sent |-> reply.sent])
  /\ pc' = "idle"
  /\ UNCHANGED <<env, call, lunar, post, tweets, resonanceLog, replies, celestial, runs>>

InitReply ==
  /\ env \in ReplyEnvs
  /\ pc = "idle"
  /\ call = NoCall
  /\ lunar = [pc |-> "idle"]
  /\ post = [pc |-> "idle"]
  /\ tweets = <<>>
  /\ resonanceLog = <<>>
  /\ reply = [pc |-> "idle", run |-> 0]
  /\ memoryFile = <<>>
  /\ replies = <<>>
  /\ celestial = [pc |-> "idle"]
  /\ runs = NoRuns

NextReply ==
  \/ ReplyRequest
  \/ ReplySearch
  \/ ReplyLoadMemory
  \/ ReplyIteration
  \/ ReplySave

SpecReply == InitReply /\ [][NextReply]_vars

-----------------------------------------------------------------------------
(* The guards of /api/cron/post, /api/cron/reply and /api/sync-tweets in   *)
(* the three builds.  A behaviour of SpecGuard follows one request: call   *)
(* holds the request and what the guards made of it; an admitted request   *)
(* of /api/cron/post (first build) or /api/cron/reply (first and third     *)
(* build) goes on through the handler's actions above.  The other bodies   *)
(* (the second build's, the third build's /api/cron/post, /api/sync-tweets) *)
(* are not followed past their guards.                                     *)

\* env for the guards: any of the three builds, CRON_SECRET unset, empty or set.
GuardEnvs ==
  {[weatherKey |-> Undefined, cronSecret |-> c, hasXCreds |-> x, build |-> b] :
     c \in CronSecrets \cup {Text("")}, x \in BOOLEAN, b \in {1, 2, 3}}

\* The test that answers 403: lines 441, 531 and 755 in the first build, lines
\* 1901-1905, 1966-1970 and 2186-2190 in the third; the second build has none
\* (lines 1431-1437, 1502-1505, 1558-1562).
RouteForbidden(key, agent) == env.build # 2 /\ ReplyForbidden(key, agent)

GuardRequest ==
  /\ pc = "idle"
  /\ call = NoCall
  /\ \E route \in {"/api/cron/post", "/api/cron/reply", "/api/sync-tweets"},
        key \in RequestKeys \cup {Text("")}, agent \in UserAgents :
       LET outcome == IF RouteForbidden(key, agent) THEN "forbidden"
                      ELSE IF ~env.hasXCreds THEN "skipped"
                      ELSE "admitted"
           followed == IF outcome # "admitted" THEN "none"
                       ELSE IF route = "/api/cron/post" /\ env.build = 1 THEN "post"
                       ELSE IF route = "/api/cron/reply" /\ env.build # 2 THEN "reply"
                       ELSE "none"
       IN /\ call' = [fn |-> route, key |-> key, agent |-> agent, outcome |-> outcome,
                      status |-> IF outcome = "forbidden" THEN 403 ELSE 200]
          /\ pc' = IF followed = "none" THEN "guard" ELSE followed
          /\ post' = IF followed = "post" THEN [pc |-> "trending"] ELSE post
          /\ reply' = IF followed = "reply"
                      THEN [pc |-> ReplyFirstStep, run |-> 0, base |-> 0,
                            memory |-> <<>>, found |-> <<>>]
                      ELSE reply
  /\ UNCHANGED <<env, lunar, tweets, resonanceLog, memoryFile, replies, celestial, runs>>

InitGuard ==
  /\ env \in GuardEnvs
  /\ pc = "idle"
  /\ call = NoCall
  /\ lunar = [pc |-> "idle"]
  /\ post = [pc |-> "idle"]
  /\ tweets = <<>>
  /\ resonanceLog = <<>>
  /\ reply = [pc |-> "idle", run |-> 0]
  /\ memoryFile = <<>>
  /\ replies = <<>>
  /\ celestial = [pc |-> "idle"]
  /\ runs = NoRuns

NextGuard ==
  \/ GuardRequest
  \/ PostTrending
  \/ PostToken
  \/ PostLunar
  \/ PostPoster
  \/ PostInsight
  \/ PostBuffer
  \/ PostUpload
  \/ PostTweet
  \/ PostLoadLog
  \/ PostSaveLog
  \/ ReplySearch
  \/ ReplyLoadMemory
  \/ ReplyIteration
  \/ ReplySave

SpecGuard == InitGuard /\ [][NextGuard]_vars

-----------------------------------------------------------------------------
(* Invocations of /api/cron/reply and /api/cron/post (first build) in      *)
(* progress at once.  Each handler is an async function: between two of    *)
(* its awaits another invocation may run.  runs[p] holds the locals of     *)
(* invocation p; an action is the stretch of a handler that ends at an     *)
(* await touching what the invocations share: X (replies, tweets),         *)
(* memory.json and resonance-log.json.  The key is the secret and the X    *)
(* credentials are set; both files exist and are read without error.       *)

\* What the pipeline of lines 447-470 hands to the tweet: the default pick, its
\* snapshot, the archetype and the report.
OverlapLive ==
  LET tokenData == getTokenDataById(DefaultPick.id,
                     [kind |-> "ok", market |-> MarketFull,
                      symbol |-> Str(<<"e", "v", "a", "a">>), nCloses |-> 15,
                      last |-> Num(795)])
      archetype == identifyArchetype([symbol |-> DefaultPick.symbol, rsi |-> tokenData.rsi,
                                      volume |-> tokenData.volumeUSD], 0)
  IN [pick |-> DefaultPick, tokenData |-> tokenData, archetype |-> archetype,
      oracleText |-> generateOracleInsight(fallback, tokenData, archetype,
                                           [kind |-> "reject"], Draws(0, 0, 0, 0))]

FinishedRun(kind, written) == [pc |-> "done", kind |-> kind, written |-> written]

\* Lines 537-573: the search, memory.json as it is now, the mentions to reply to.
OverlapReplyLoad(p) ==
  /\ runs[p].pc = "idle"
  /\ \E found \in SearchResults \ {<<>>} :
       LET newTweets == NewTweets(found, memoryFile)
       IN runs' = [runs EXCEPT ![p] =
                     IF newTweets = <<>> THEN FinishedRun("reply", TRUE)
                     ELSE [pc |-> "loop", kind |-> "reply", memory |-> memoryFile,
                           toReply |-> ToReply(newTweets), i |-> 1]]
  /\ UNCHANGED <<env, pc, call, lunar, post, tweets, resonanceLog, reply, memoryFile,
                 replies, celestial>>

\* Lines 575-634: one turn of the loop, up to the settling of rw.v2.reply.
OverlapReplySend(p) ==
  /\ runs[p].pc = "loop"
  /\ \E result \in {[ok |-> TRUE]} \cup {[ok |-> FALSE, err |-> e] : e \in ReplyErrors} :
       LET t == runs[p].toReply[runs[p].i]
           last == runs[p].i >= Len(runs[p].toReply)
           next == [runs[p] EXCEPT !.i = @ + 1, !.pc = IF last THEN "save" ELSE "loop"]
       IN IF result.ok
          THEN /\ replies' = Append(replies, t.id)
               /\ runs' = [runs EXCEPT ![p] = [next EXCEPT !.memory = Append(@, t.id)]]
          ELSE /\ replies' = replies
               /\ runs' = [runs EXCEPT ![p] =
                             IF IsRateLimit(result.err) THEN [next EXCEPT !.pc = "save"]
                             ELSE next]
  /\ UNCHANGED <<env, pc, call, lunar, post, tweets, resonanceLog, reply, memoryFile,
                 celestial>>

\* Lines 636-645: memory.json is written.
OverlapReplySave(p) ==
  /\ runs[p].pc = "save"
  /\ runs[p].kind = "reply"
  /\ \E written \in BOOLEAN :
       /\ memoryFile' = IF written THEN LastN(runs[p].memory, 100) ELSE memoryFile
       /\ runs' = [runs EXCEPT ![p] = FinishedRun("reply", written)]
  /\ UNCHANGED <<env, pc, call, lunar, post, tweets, resonanceLog, reply, replies,
                 celestial>>

\* Lines 439-481 and 503-504: the pipeline, then the tweet with or without media
\* settles.
OverlapPostTweet(p) ==
  /\ runs[p].pc = "idle"
  /\ \E accepted \in BOOLEAN, media \in BOOLEAN :
       IF accepted
       THEN /\ tweets' = Append(tweets, [text |-> Slice(OverlapLive.oracleText, 279),
                                         media |-> media])
            /\ runs' = [runs EXCEPT ![p] =
                          [pc |-> "load", kind |-> "post", tweetId |-> Len(tweets) + 1,
                           sigil |-> IF media THEN Text("https://img") ELSE Null]]
       ELSE /\ tweets' = tweets
            /\ runs' = [runs EXCEPT ![p] = FinishedRun("post", TRUE)]
  /\ UNCHANGED <<env, pc, call, lunar, post, resonanceLog, reply, memoryFile, replies,
                 celestial>>

\* Lines 483-496 (507-520): loadResonanceLog gives the file as it is now, and
\* the new record is put first.
OverlapPostLoad(p) ==
  /\ runs[p].pc = "load"
  /\ runs' = [runs EXCEPT ![p] =
                [pc |-> "save", kind |-> "post", tweetId |-> runs[p].tweetId,
                 log |-> <<LogRecord(OverlapLive, runs[p].tweetId, runs[p].sigil)>>
                           \o resonanceLog]]
  /\ UNCHANGED <<env, pc, call, lunar, post, tweets, resonanceLog, reply, memoryFile,
                 replies, celestial>>

\* Line 497 (521): saveResonanceLog writes the file or logs its failure.
OverlapPostSave(p) ==
  /\ runs[p].pc = "save"
  /\ runs[p].kind = "post"
  /\ \E written \in BOOLEAN :
       /\ resonanceLog' = IF written THEN runs[p].log ELSE resonanceLog
       /\ runs' = [runs EXCEPT ![p] = FinishedRun("post", written)]
  /\ UNCHANGED <<env, pc, call, lunar, post, tweets, reply, memoryFile, replies,
                 celestial>>

InitOverlap ==
  /\ env = [weatherKey |-> Undefined, cronSecret |-> Text("s3cret"), hasXCreds |-> TRUE,
            build |-> 1]
  /\ pc = "idle"
  /\ call = NoCall
  /\ lunar = [pc |-> "idle"]
  /\ post = [pc |-> "idle"]
  /\ tweets = <<>>
  /\ resonanceLog = <<OldRecord>>
  /\ reply = [pc |-> "idle", run |-> 0]
  /\ memoryFile = <<>>
  /\ replies = <<>>
  /\ celestial = [pc |-> "idle"]
  /\ runs = NoRuns

NextOverlap ==
  \E p \in Invocations :
    \/ OverlapReplyLoad(p)
    \/ OverlapReplySend(p)
    \/ OverlapReplySave(p)
    \/ OverlapPostTweet(p)
    \/ OverlapPostLoad(p)
    \/ OverlapPostSave(p)

SpecOverlap == InitOverlap /\ [][NextOverlap]_vars

-----------------------------------------------------------------------------
(* Claims about identifyArchetype.                                         *)

IsArchetypeCall == call.fn = "identifyArchetype"

\* The symbol, RSI (tenths) and volume a call classifies, after the parameter
\* defaults ('' , 50 and 0) have replaced missing arguments.
CallSymbol == Default(call.arg.symbol, Str(<<>>)).s
CallRsi == Default(call.arg.rsi, Num(500))
CallVolume == Default(call.arg.volume, Num(0))

\* The decision ladder of the specification, for a symbol without BONK.
LadderArchetype(symbol, rsi, volume) ==
  CASE rsi < 236 -> "shadow"
    [] rsi >= 236 /\ rsi < 382 -> IF volume > 10000000 THEN "trickster" ELSE "observer"
    [] rsi >= 382 /\ rsi < 500 -> "echo"
    [] rsi >= 500 /\ rsi < 618 -> "seer"
    [] rsi >= 618 /\ rsi < 786 -> "guardian"
    [] rsi >= 786 -> IF Includes(symbol, SOL) THEN "prophet" ELSE "seer"

\* C1: for every symbol that does not contain BONK, every numeric rsi and every
\* numeric volume, identifyArchetype returns the archetype of the ladder: shadow
\* below 23.6, trickster or observer (by volume > 10,000,000) below 38.2, echo
\* below 50, seer below 61.8, guardian below 78.6, and from 78.6 prophet for a
\* symbol containing SOL, seer otherwise.
C1_LadderWithoutBonk ==
  (IsArchetypeCall /\ ~Includes(CallSymbol, BONK)
     /\ CallRsi.t = "num" /\ CallVolume.t = "num")
    => call.ret = LadderArchetype(CallSymbol, CallRsi.v, CallVolume.v)

C1_Witness ==
  /\ IsArchetypeCall
  /\ call.arg.symbol = Str(<<"B", "T", "C">>)
  /\ call.arg.rsi = Num(300)
  /\ call.arg.volume = Num(VolumeThreshold)
  /\ call.ret = "observer"

\* C2: for any symbol containing BONK, whatever band the rsi falls in,
\* identifyArchetype returns cultist or trickster.
C2_BonkOverridesEveryBand ==
  (IsArchetypeCall /\ Includes(CallSymbol, BONK))
    => call.ret \in {"cultist", "trickster"}

\* C3: for every input (any symbol string, any rsi including NaN, null and
\* non-numeric text, any volume including missing and non-numeric),
\* identifyArchetype returns one of the eight archetypes.
C3_ArchetypeInClosedSet == IsArchetypeCall => call.ret \in Archetypes

C3_Witness ==
  /\ IsArchetypeCall
  /\ call.arg.rsi = NaN
  /\ call.arg.volume = Str(<<"a", "b", "c">>)
  /\ call.ret = "seer"

-----------------------------------------------------------------------------
(* Claims about getLunarPatternTierFromAngle.                              *)

IsTierCall == call.fn = "getLunarPatternTierFromAngle"

\* The sector table of the specification, angles in tenths of a degree.
SectorTier(a) ==
  CASE a >= 0 /\ a < 225 -> "Veil"
    [] a >= 225 /\ a < 675 -> "Whisper"
    [] a >= 675 /\ a < 1125 -> "Charge"
    [] a >= 1125 /\ a < 1575 -> "Charge"
    [] a >= 1575 /\ a < 2025 -> "Overglow"
    [] a >= 2025 /\ a < 2475 -> "Echofield"
    [] a >= 2475 /\ a < 2925 -> "Whisper"
    [] a >= 2925 /\ a < 3600 -> "Veil"

\* C7: for every angle in [0,360) getLunarPatternTierFromAngle returns the tier of
\* the sector table, each boundary value belonging to the sector that starts at it.
C7_SectorTable ==
  (IsTierCall /\ call.arg.t = "num" /\ call.arg.v >= 0 /\ call.arg.v < 3600)
    => call.ret.tier = SectorTier(call.arg.v)

C7_Witness ==
  /\ IsTierCall
  /\ call.arg = Num(225)
  /\ call.ret.tier = "Whisper"

\* C8: the angle is taken modulo 360 before the lookup: for every angle a,
\* getLunarPatternTierFromAngle(a) equals getLunarPatternTierFromAngle(a mod 360).
C8_AngleModulo360 ==
  (IsTierCall /\ call.arg.t = "num")
    => call.ret = getLunarPatternTierFromAngle(Num(call.arg.v % 3600))

-----------------------------------------------------------------------------
(* Claims about getLunarSignal.                                            *)

LunarReturned == lunar.pc = "responded"

\* C4: when getLunarSignal catches an exception (the fetch rejects or the body
\* is not JSON) it returns the fallback content tagged source = error.
C4_ExceptionTaggedError ==
  (LunarReturned /\ lunar.path = "exception")
    => /\ lunar.ret.phase = Text("Waning Crescent")
       /\ lunar.ret.source = "error"

\* C5: when WEATHER_API_KEY is not configured getLunarSignal makes no external
\* request and returns the fixed fallback signal: phase Waning Crescent, source
\* fallback, the Waning Crescent message and the tier of angle 315.
C5_NoKeyFallback ==
  (LunarReturned /\ ~Truthy(env.weatherKey))
    => /\ lunar.fetches = 0
       /\ lunar.ret.phase = Text("Waning Crescent")
       /\ lunar.ret.source = "fallback"
       /\ lunar.ret.message = Text("Fading signal -- prepare to receive anew.")
       /\ lunar.ret.pattern = Tier("Veil", "U+27E1", "Signal fading -- prepare anew.")
       /\ lunar.resp.status = 200

C5_Witness ==
  /\ LunarReturned
  /\ env.weatherKey = Undefined
  /\ lunar.fetches = 0
  /\ lunar.ret.source = "fallback"

IsMessageCall == call.fn = "getLunarMessage"

\* The message the specification documents for a canonical phase name.
DocumentedMessage(name) ==
  CASE name = "New Moon" -> "New pattern forming -- wait, don't act."
    [] name = "Waxing Crescent" -> "Conviction forming. Early risk finds momentum."
    [] name = "First Quarter" -> "Signal friction. Cut noise."
    [] name = "Waxing Gibbous" -> "Belief climbing -- echo gaining mass."
    [] name = "Full Moon" -> "Full sentiment -- prepare for reversal."
    [] name = "Waning Gibbous" -> "Decompression -- profit + shadow emerge."
    [] name = "Last Quarter" -> "Ritual endings. Retest mind."
    [] name = "Waning Crescent" -> "Fading signal -- prepare to receive anew."

CanonicalNames ==
  {"New Moon", "Waxing Crescent", "First Quarter", "Waxing Gibbous",
   "Full Moon", "Waning Gibbous", "Last Quarter", "Waning Crescent"}

IsCanonicalArg == call.arg.t = "text" /\ call.arg.s \in CanonicalNames

\* The claim of C25 for the inputs that name no member of Object.prototype.
MessageForOwnKeys ==
  (IsMessageCall /\ ~(call.arg.t = "text" /\ call.arg.s \in InheritedKeys))
    => call.ret = Text(IF IsCanonicalArg THEN DocumentedMessage(call.arg.s)
                       ELSE "Lunar unknown -- silence reverberates.")

\* C25: getLunarMessage returns the documented message for each of the 8
\* canonical phase names and the default "Lunar unknown -- silence
\* reverberates." for every other input, undefined and the empty string included.
C25_MessageOrDefault ==
  IsMessageCall
    => call.ret = Text(IF IsCanonicalArg THEN DocumentedMessage(call.arg.s)
                       ELSE "Lunar unknown -- silence reverberates.")

-----------------------------------------------------------------------------
(* Claims about the report.                                                *)

IsInsightCall == call.fn = "generateOracleInsight"

\* C10: generateOracleInsight never throws: when the call of the language model
\* fails (it rejects, or answers with no choices or with a null content) the
\* report carries the fixed default quote and the template narrative, which is
\* filled from the token's numbers alone, for every tokenData (null included) and
\* every lunar value (null included).
C10_FailureUsesDefaults ==
  (IsInsightCall /\ LlmFails(call.arg.llm))
    => /\ call.ret # Thrown
       /\ call.ret.quote.t = "text"
       /\ call.ret.quote.s = DefaultQuote
       /\ call.ret.pulse =
            TemplatePulse(TokenFields(call.arg.tokenData),
                          DerivedMetrics(TokenFields(call.arg.tokenData),
                                         Draws(0, 0, 0, 0)))

C10_Witness ==
  /\ IsInsightCall
  /\ call.arg.llm.kind = "nochoices"
  /\ call.arg.tokenData = Null
  /\ call.arg.lunar = Null
  /\ call.ret # Thrown
  /\ call.ret.pulse.kind = "template"

\* The text the language model answered in a call, as line 378 reads it.
CallResponse == trim(call.arg.llm.content)

IsAnsweredInsight ==
  IsInsightCall /\ call.arg.llm.kind = "text" /\ call.ret # Thrown

\* A double-quoted span of s starts at i and ends at j, and none starts before i:
\* every quote character before i is followed at once by another.
FirstQuotedSpan(s, i, j) ==
  /\ i + 1 < j
  /\ s[i] = Q /\ s[j] = Q
  /\ \A k \in (i + 1)..(j - 1) : s[k] # Q
  /\ \A k \in 1..(i - 1) : s[k] = Q => s[k + 1] = Q

NoQuotedSpan(s) ==
  ~\E i \in 1..Len(s), j \in 1..Len(s) : FirstQuotedSpan(s, i, j)

\* s without its positions i..j.
Without(s, i, j) == SubSeq(s, 1, i - 1) \o SubSeq(s, j + 1, Len(s))

\* C21 as stated: when the response contains a double-quoted sentence, the first
\* such span becomes the mystical quote and the response with that span removed
\* becomes the narrative; when it contains none, the whole response becomes the
\* narrative and the fixed default quote is kept.
C21_QuoteSplitsResponse ==
  IsAnsweredInsight
    => /\ \A i \in 1..Len(CallResponse), j \in 1..Len(CallResponse) :
            FirstQuotedSpan(CallResponse, i, j)
              => /\ call.ret.quote = Str(SubSeq(CallResponse, i, j))
                 /\ call.ret.pulse.text = Without(CallResponse, i, j)
       /\ NoQuotedSpan(CallResponse)
            => /\ call.ret.quote = Text(DefaultQuote)
               /\ call.ret.pulse.text = CallResponse

\* C21, amended: the narrative is the response with the first quoted span
\* removed and then trimmed of the white space at its two ends; the rest is as
\* stated.
C21_QuoteSplitsResponseTrimmed ==
  IsAnsweredInsight
    => /\ \A i \in 1..Len(CallResponse), j \in 1..Len(CallResponse) :
            FirstQuotedSpan(CallResponse, i, j)
              => /\ call.ret.quote = Str(SubSeq(CallResponse, i, j))
                 /\ call.ret.pulse.text = trim(Without(CallResponse, i, j))
       /\ NoQuotedSpan(CallResponse)
            => /\ call.ret.quote = Text(DefaultQuote)
               /\ call.ret.pulse.text = CallResponse

C21_Witness ==
  /\ IsAnsweredInsight
  /\ call.arg.llm.content = <<Q, "a", Q, Q, "b", Q>>
  /\ call.ret.quote = Str(<<Q, "a", Q>>)
  /\ call.ret.pulse.text = <<Q, "b", Q>>

IsTwiceCall == call.fn = "generateOracleInsight twice"

\* A report without the four values drawn at random.
WithoutDraws(report) ==
  [report EXCEPT !.metrics.deltaKey = "drawn", !.metrics.phaseDrift = "drawn",
                 !.metrics.alignmentString.omega = "drawn",
                 !.metrics.alignmentString.delta = "drawn"]

\* C22: two reports built from the same token snapshot, lunar signal and
\* archetype, the language model failing or answering the same text both times,
\* have the same quote, narrative, volume/market-cap ratio, threshold and echo
\* rim; they differ in nothing but deltaKey, phaseDrift and the two integers of
\* the alignment string.
C22_RebuildDiffersInDrawsOnly ==
  (IsTwiceCall /\ call.ret # Thrown)
    => /\ call.again # Thrown
       /\ call.again.quote = call.ret.quote
       /\ call.again.pulse = call.ret.pulse
       /\ call.again.metrics.volMcapRatio = call.ret.metrics.volMcapRatio
       /\ call.again.metrics.threshold = call.ret.metrics.threshold
       /\ call.again.metrics.echoRim = call.ret.metrics.echoRim
       /\ WithoutDraws(call.again) = WithoutDraws(call.ret)

C22_Witness ==
  /\ IsTwiceCall
  /\ call.ret # Thrown
  /\ call.arg.llm.kind = "text"
  /\ call.arg.rnd # call.arg.rndAgain
  /\ call.again.metrics.deltaKey # call.ret.metrics.deltaKey
  /\ call.again.metrics.alignmentString.omega # call.ret.metrics.alignmentString.omega
  /\ call.again.metrics.threshold = call.ret.metrics.threshold

-----------------------------------------------------------------------------
(* Claims about the number formatters.                                     *)

\* The decimal digits of a natural number.
RECURSIVE NatDigits(_)
NatDigits(n) ==
  IF n < 10 THEN <<Digits[n + 1]>>
  ELSE Append(NatDigits(n \div 10), Digits[(n % 10) + 1])

RECURSIVE PadZeros(_, _)
PadZeros(ds, width) == IF Len(ds) >= width THEN ds ELSE PadZeros(<<"0">> \o ds, width)

\* The characters of a decimal string: the sign, the digits, the point and the
\* suffix.
DecimalDigits(x) ==
  LET ds == PadZeros(NatDigits(Abs(x.k)), x.d + 1)
      whole == SubSeq(ds, 1, Len(ds) - x.d)
      frac == SubSeq(ds, Len(ds) - x.d + 1, Len(ds))
  IN (IF x.k < 0 THEN <<"-">> ELSE <<>>) \o whole
       \o (IF x.d > 0 THEN <<".">> \o frac ELSE <<>>)
       \o (IF x.suffix = "" THEN <<>> ELSE <<x.suffix>>)

\* The characters of a formatter's result: a fixed text, or a decimal string
\* with or without a dollar sign before it.
DecimalText(x) ==
  CASE x.t = "text" -> <<x.s>>
    [] x.t = "dollar" -> <<"$">> \o DecimalDigits(x.amount)
    [] OTHER -> DecimalDigits(x)

IsPriceCall == call.fn = "formatPrice"

\* The decimal string ret has d decimals and is the price of v/10000 dollars
\* rounded to them.
PriceWithDecimals(ret, v, d) ==
  /\ ret.t = "fixed" /\ ret.d = d /\ ret.suffix = ""
  /\ IF d >= 4 THEN ret.k = v * Pow10(d - 4)
     ELSE 2 * Abs(ret.k * Pow10(4 - d) - v) <= Pow10(4 - d)

\* C23: formatPrice chooses the number of decimals by the price alone: 8 below
\* 0.01, 4 from 0.01 and below 1, 2 from 1 (0.005 gives "0.00500000", 0.5 gives
\* "0.5000", 5 gives "5.00"); an absent or NaN price gives the placeholder "--",
\* and 0 is formatted as a number.
C23_PriceDecimals ==
  IsPriceCall
    => /\ call.arg.t = "num"
            => PriceWithDecimals(call.ret, call.arg.v,
                                 IF call.arg.v < 100 THEN 8
                                 ELSE IF call.arg.v < 10000 THEN 4 ELSE 2)
       /\ call.arg \in {Undefined, Null, NaN} => call.ret = Text("--")
       /\ call.arg = Num(50)
            => DecimalText(call.ret) = <<"0", ".", "0", "0", "5", "0", "0", "0", "0", "0">>
       /\ call.arg = Num(5000) => DecimalText(call.ret) = <<"0", ".", "5", "0", "0", "0">>
       /\ call.arg = Num(50000) => DecimalText(call.ret) = <<"5", ".", "0", "0">>
       /\ call.arg = Num(0)
            => DecimalText(call.ret) = <<"0", ".", "0", "0", "0", "0", "0", "0", "0", "0">>

C23_Witness ==
  /\ IsPriceCall
  /\ call.arg = Num(100)
  /\ DecimalText(call.ret) = <<"0", ".", "0", "1", "0", "0">>

IsNumberCall == call.fn = "formatNumber"

\* The decimal string ret is v/scale rounded to two decimals, with the suffix.
ScaledTwoDecimals(ret, v, scale, suffix) ==
  /\ ret.t = "fixed" /\ ret.d = 2 /\ ret.suffix = suffix
  /\ 2 * Abs(ret.k * (scale \div 100) - v) <= scale \div 100

\* The scaling of the specification for an amount of v dollars.
NumberLadder(ret, v) ==
  IF v >= 1000000000 THEN ScaledTwoDecimals(ret, v, 1000000000, "B")
  ELSE IF v >= 1000000 THEN ScaledTwoDecimals(ret, v, 1000000, "M")
  ELSE IF v >= 1000 THEN ScaledTwoDecimals(ret, v, 1000, "K")
  ELSE ret = Fixed(v * 100, 2, "")

\* The first two definitions of formatNumber follow the specification.
FirstVariantsFollowLadder ==
  (IsNumberCall /\ call.variant # "third")
    => /\ call.arg.t = "num" => NumberLadder(call.ret, call.arg.v)
       /\ call.arg \in {Undefined, Null, NaN} => call.ret = Text("--")

\* C24: formatNumber scales by magnitude (from 1e9 n/1e9 with B, from 1e6 n/1e6
\* with M, from 1e3 n/1e3 with K, otherwise the 2-decimal literal; 1500000000
\* gives "1.50B" and 2500 gives "2.50K") and returns "--" for a missing or NaN
\* input, and every definition of formatNumber in the repository does so.
C24_EveryFormatNumberAlike ==
  IsNumberCall
    => /\ call.arg.t = "num" => NumberLadder(call.ret, call.arg.v)
       /\ call.arg \in {Undefined, Null, NaN} => call.ret = Text("--")
       /\ call.arg = Num(1500000000) => DecimalText(call.ret) = <<"1", ".", "5", "0", "B">>
       /\ call.arg = Num(2500) => DecimalText(call.ret) = <<"2", ".", "5", "0", "K">>

PostFinished == pc = "post" /\ post.pc = "done"

\* C9: report assembly always completes: whatever the collaborators do (the
\* market-data request fails and getTokenDataById returns null, the RSI is
\* absent, the lunar signal is the fallback, the language model fails), a
\* request of /api/cron/post that entered the pipeline ends with a built report.
C9_ReportAlwaysBuilt == PostFinished => post.oracleText.t = "report"

\* C11: truncation to 279 characters is applied only to the text handed to the
\* posting call: the record /api/cron/post puts in the resonance log holds the
\* full report.
C11_LogKeepsFullReport ==
  (pc = "post" /\ post.pc = "save") => post.log[1].content = post.live.oracleText

\* The Volume/Market Cap field of a report.
IsNaNOrInfinity(field) == field.t = "text" /\ field.s \in {"NaN", "Infinity"}

\* C12: the Volume/Market Cap field is "0.0" whenever marketCap <= 0, and for
\* every token snapshot (marketCap = 0 and an absent volume included) it is
\* never "NaN" or "Infinity".
C12_RatioNeverNaN ==
  (IsInsightCall /\ call.ret # Thrown)
    => /\ ~Gt(TokenFields(call.arg.tokenData).marketCap, 0, 1)
            => call.ret.metrics.volMcapRatio = Text("0.0")
       /\ ~IsNaNOrInfinity(call.ret.metrics.volMcapRatio)

\* C13: in every report Threshold is formatPrice(price x 1.05) and Echo Rim is
\* formatPrice(price x 1.15): both follow the decimal-count rule of the Price
\* field (8 decimals below 0.01, 4 below 1, 2 otherwise).
C13_LevelsUsePriceRule ==
  (IsInsightCall /\ call.ret # Thrown)
    => /\ call.ret.metrics.threshold =
            formatPrice(Times(TokenFields(call.arg.tokenData).price, 105), 1000000)
       /\ call.ret.metrics.echoRim =
            formatPrice(Times(TokenFields(call.arg.tokenData).price, 115), 1000000)

PostClassified == pc = "post" /\ post.pc = "poster"

\* C14: with fewer than 15 closing prices getTokenDataById gives no RSI, and the
\* archetype the cron handler computes is that of identifyArchetype with rsi 50:
\* seer for a symbol without BONK.
C14_FewClosesDefaultRsi ==
  (PostClassified /\ post.closes < 15)
    => /\ post.tokenData.rsi = Null
       /\ \E draw \in RandomTenths :
            post.archetype =
              identifyArchetype([symbol |-> post.pick.symbol, rsi |-> Num(500),
                                 volume |-> post.tokenData.volumeUSD], draw)
       /\ ~Includes(post.pick.symbol.s, BONK) => post.archetype = "seer"

C14_Witness ==
  /\ PostClassified
  /\ post.closes = 14
  /\ post.tokenData.rsi = Null
  /\ post.pick.symbol = Str(<<"$", "E", "V", "A", "A">>)
  /\ post.archetype = "seer"

-----------------------------------------------------------------------------
(* Claims about /api/cron/reply.                                           *)

\* C15: across runs executed one after another no mention id receives more
\* than one reply.
C15_NoMentionRepliedTwice ==
  \A k \in 1..Len(replies) : \A l \in 1..Len(replies) :
    replies[k] = replies[l] => k = l

ReplyRunning == pc = "reply" /\ reply.pc \in {"loop", "save"}

\* C16: a run sends at most 2 replies, however many new mentions the search
\* returns.
C16_AtMostTwoReplies == ReplyRunning => Len(replies) - reply.base <= 2

\* A turn that failed with a rate-limit error: code 429 or a message holding 429.
RateLimited(turn) ==
  turn.kind = "failed" /\ (turn.err.code = 429 \/ turn.err.has429)

\* C17: within a run, once a reply attempt fails with a rate-limit error no
\* further reply is attempted (the failed turn is the run's last and the loop is
\* left); a failure of any other kind lets the run go on: a run that leaves the
\* loop without a rate-limit error has taken a turn for each of its mentions.
C17_RateLimitStopsRun ==
  ReplyRunning
    => /\ \A k \in 1..Len(reply.iterations) :
            RateLimited(reply.iterations[k])
              => k = Len(reply.iterations) /\ reply.pc = "save"
       /\ (reply.pc = "save"
             /\ \A k \in 1..Len(reply.iterations) : ~RateLimited(reply.iterations[k]))
            => Len(reply.iterations) = Len(reply.toReply)

C17_Witness ==
  /\ ReplyRunning
  /\ reply.pc = "save"
  /\ Len(reply.toReply) = 2
  /\ Len(reply.iterations) = 2
  /\ reply.iterations[1].kind = "failed"
  /\ reply.iterations[1].err = [code |-> 403, has429 |-> FALSE]
  /\ RateLimited(reply.iterations[2])

-----------------------------------------------------------------------------
(* Claims about the Kp readings.                                           *)

IsKpCall == call.fn = "getKpState"

\* The threshold ladder of the specification, the index in thousandths.
KpLadder(index) ==
  CASE index < 2000 -> "U+26AA Quiet"
    [] index >= 2000 /\ index < 4000 -> "U+1F7E1 Unsettled"
    [] index >= 4000 /\ index < 6000 -> "U+1F7E0 Active"
    [] index >= 6000 -> "U+1F534 Storm Watch"

\* C18: getKpState maps an index by the ladder: below 2 Quiet, from 2 and below
\* 4 Unsettled, from 4 and below 6 Active, from 6 Storm Watch, each boundary
\* belonging to the higher state.
C18_KpLadder ==
  (IsKpCall /\ call.arg.t = "num") => call.ret = KpLadder(call.arg.v)

C18_Witness ==
  /\ IsKpCall
  /\ call.arg = Num(2000)
  /\ call.ret = "U+1F7E1 Unsettled"

CelestialResponded == pc = "celestial" /\ celestial.pc = "responded"

\* A reading that shows its feed failed.
DegradedKp(reading) ==
  "state" \in DOMAIN reading /\ reading.state \in {"Unknown", "Error"}

\* C19: the two Kp readings fail independently: when only the realtime feed
\* fails the realtime field shows an Unknown/Error state and the averaged reading
\* comes from its feed; when only the averaged feed fails the averaged field
\* shows an Unknown/Error state and the realtime reading comes from its feed;
\* the response is a 200 in both cases.
C19_FeedsFailIndependently ==
  CelestialResponded
    => /\ (celestial.rt = "failed" /\ celestial.av = "read")
            => /\ celestial.resp.status = 200
               /\ DegradedKp(celestial.resp.kp.realtime)
               /\ celestial.resp.kp.averaged.time = "feed"
       /\ (celestial.rt = "read" /\ celestial.av = "failed")
            => /\ celestial.resp.status = 200
               /\ celestial.resp.kp.realtime.time = "feed"
               /\ DegradedKp(celestial.resp.kp.averaged)

\* A reading whose state is the ladder's for the index it reports.
StateFromIndex(reading) ==
  "state" \in DOMAIN reading /\ reading.state = KpLadder(reading.index.v)

\* C20: every Kp reading of the response that was obtained from its feed,
\* realtime or averaged, carries the state of the ladder for the index it
\* reports.
C20_StateDerivedFromIndex ==
  CelestialResponded
    => /\ (celestial.rt = "read" /\ celestial.resp.kp.realtime.index.t = "num")
            => StateFromIndex(celestial.resp.kp.realtime)
       /\ (celestial.av = "read" /\ celestial.resp.kp.averaged.index.t = "num")
            => StateFromIndex(celestial.resp.kp.averaged)

-----------------------------------------------------------------------------
(* Claims about what /api/cron/post publishes and logs.                    *)

\* C27: one invocation of /api/cron/post publishes at most one tweet (with media
\* or text-only, never both); the resonance log changes only after the tweet
\* call succeeded, by a record placed first that carries that tweet's id; while
\* no tweet is published the log is left unchanged.
C27_OneTweetThenOneRecord ==
  [][/\ Len(tweets') <= 1
     /\ Len(tweets') = 0 => resonanceLog' = resonanceLog
     /\ resonanceLog' # resonanceLog
          => /\ Len(tweets) = 1 /\ tweets' = tweets
             /\ Len(resonanceLog') >= 1
             /\ resonanceLog'[1].id = Len(tweets)
             /\ resonanceLog'[1].sigil # Null <=> tweets[1].media]_vars

C27_Witness ==
  /\ PostFinished
  /\ Len(tweets) = 1
  /\ tweets[1].media
  /\ Len(resonanceLog) = 2
  /\ resonanceLog[1].id = 1
  /\ resonanceLog[1].sigil = Text("https://img")
  /\ resonanceLog[2] = OldRecord

\* The report is built and the handler holds it with the archetype.
PostReported == pc = "post" /\ post.pc \in {"buffer", "tweet"}

\* The RSI (tenths) the run works with: the snapshot's, or 50 when it has none.
EffectiveRsi(tokenData) == IF tokenData.rsi = Null THEN 500 ELSE tokenData.rsi.v

\* C30: within one /api/cron/post run the archetype and the report's Cycle
\* Index come from the same effective RSI: the archetype is identifyArchetype's
\* for it and the Cycle Index is it/100 x 1.618 to 2 decimals; when the token's
\* RSI is null both use 50, so the Cycle Index reads 0.81.
C30_ArchetypeAndCycleIndexAgree ==
  PostReported
    => LET rsi == EffectiveRsi(post.live.tokenData)
           cycleIndex == post.live.oracleText.metrics.cycleIndex
       IN /\ \E draw \in RandomTenths :
               post.live.archetype =
                 identifyArchetype([symbol |-> post.live.pick.symbol, rsi |-> Num(rsi),
                                    volume |-> post.live.tokenData.volumeUSD], draw)
          /\ cycleIndex.t = "fixed" /\ cycleIndex.d = 2
          /\ 2 * Abs(cycleIndex.k * 10000 - rsi * 1618) <= 10000
          /\ post.live.tokenData.rsi = Null
               => DecimalText(cycleIndex) = <<"0", ".", "8", "1">>

\* The claim of C30 for the runs whose snapshot has an RSI, and its archetype
\* half for every run.
AgreeWhenRsiPresent ==
  PostReported
    => LET rsi == EffectiveRsi(post.live.tokenData)
           cycleIndex == post.live.oracleText.metrics.cycleIndex
       IN /\ \E draw \in RandomTenths :
               post.live.archetype =
                 identifyArchetype([symbol |-> post.live.pick.symbol, rsi |-> Num(rsi),
                                    volume |-> post.live.tokenData.volumeUSD], draw)
          /\ post.live.tokenData.rsi # Null
               => 2 * Abs(cycleIndex.k * 10000 - rsi * 1618) <= 10000

-----------------------------------------------------------------------------
(* Claims about the guards.                                                *)

Requested == call # NoCall /\ call.fn \in {"/api/cron/post", "/api/cron/reply", "/api/sync-tweets"}

\* The request's key is not a configured, non-empty CRON_SECRET.
BadKey == ~(env.cronSecret.t = "text" /\ env.cronSecret.s # "" /\ call.key = env.cronSecret)

\* Nothing was published and no file was changed.
NoEffect == tweets = <<>> /\ replies = <<>> /\ memoryFile = <<>> /\ resonanceLog = <<>>

\* The claim of C26 for the first build alone.
FirstBuildRefusesBadKey ==
  (Requested /\ BadKey /\ env.build = 1)
    => call.status = 403 /\ pc = "guard" /\ NoEffect

\* C26: a request to /api/cron/post, /api/cron/reply or /api/sync-tweets whose
\* key is not a configured, non-empty CRON_SECRET is answered 403 and causes no
\* tweet, no reply and no write to memory.json or resonance-log.json, whatever
\* its other headers are.
C26_BadKeyRefused ==
  (Requested /\ BadKey) => call.status = 403 /\ pc = "guard" /\ NoEffect

-----------------------------------------------------------------------------
(* Claims about invocations in progress at once.                           *)

\* C28: no mention id receives more than one reply, even when two invocations
\* of /api/cron/reply overlap in time (each reads memory.json at its start,
\* replies, and writes memory.json at its end).
C28_NoDoubleReplyWhenOverlapping ==
  Cardinality({replies[k] : k \in 1..Len(replies)}) = Len(replies)

\* Every invocation that started has completed, none with a failed write of its
\* file.
AllCompleted ==
  \A p \in Invocations : runs[p].pc = "idle" \/ (runs[p].pc = "done" /\ runs[p].written)

\* The records of the log that carry the id.
RecordsOf(id) == {k \in 1..Len(resonanceLog) : resonanceLog[k].id = id}

\* C29: after any interleaving of /api/cron/post invocations has completed
\* without a file-write error, resonance-log.json holds exactly one record for
\* every tweet those invocations published, in addition to the records it held
\* before.
C29_LogLosesNoRecord ==
  AllCompleted
    => /\ \A id \in 1..Len(tweets) : Cardinality(RecordsOf(id)) = 1
       /\ Len(resonanceLog) = Len(tweets) + 1
       /\ resonanceLog[Len(resonanceLog)] = OldRecord

====
